---- MODULE Spec2Model ----
(***************************************************************************)
(* Aplenture/AppJS: the App of src/src/core/app.ts (lines 1-300).          *)
(* The route compiler (App.init), the route dispatcher (App.execute),      *)
(* App.deinit and the debug switch, as a state machine whose steps are the *)
(* synchronous stretches of the async methods between two awaits.          *)
(*                                                                         *)
(* Strings are TLA+ strings; toLowerCase is the table Lower.  A path       *)
(* string is the sequence of its words and single blanks (" "), so that    *)
(* String.split(' ') is a real computation (Split).                        *)
(***************************************************************************)
EXTENDS Naturals, Sequences, FiniteSets, TLC

\* ------------------------------------------------------------------ bounds
MaxInitCalls == 2      \* App.init() calls in one behaviour
MaxDeinitCalls == 1    \* App.deinit() calls in one behaviour
MaxExecCalls == 1      \* App.execute() calls in one lifecycle behaviour
MaxDispatchCalls == 1  \* App.execute() calls in one dispatch behaviour
MaxConfigChanges == 1  \* configuration reloads in one behaviour

\* ------------------------------------------------------------ small helpers
Range(s) == {s[i] : i \in 1..Len(s)}

NoArgs == [k \in {} |-> ""]

\* String.prototype.toLowerCase on the names the model uses
Lower ==
    [Auth |-> "auth", Store |-> "store", Check |-> "check", GET |-> "get",
     Read |-> "read", READ |-> "read", Wipe |-> "wipe", Role |-> "role",
     ROLE |-> "role", ID |-> "id", Token |-> "token", Ghost |-> "ghost",
     Del |-> "del", Stats |-> "stats", STORE |-> "store", List |-> "list",
     Drop |-> "drop"]

toLowerCase(s) == IF s \in DOMAIN Lower THEN Lower[s] ELSE s

\* ------------------------------------------------------- module registry
\* What BackendJS.Module.toJSON() reports for each module class: its name
\* and, per command, the declared parameters in declaration order.
Param(n, opt) == [name |-> n, optional |-> opt]

ModuleClasses ==
    [Auth |->
        [name |-> "Auth",
         commands |-> <<
            [name |-> "check", parameters |-> <<Param("Token", FALSE)>>] >>],
     Store |->
        [name |-> "Store",
         commands |-> <<
            [name |-> "get", parameters |-> <<Param("id", TRUE), Param("Role", TRUE)>>],
            [name |-> "del", parameters |-> <<Param("ID", TRUE), Param("role", TRUE)>>],
            [name |-> "list", parameters |-> <<>>] >>]]

\* ModuleHas that says yes to every command
ModuleHas_Any(class, command) == TRUE

\* Module.has(command): case-insensitive membership in the command table
ModuleHas(class, command) ==
    \E i \in 1..Len(ModuleClasses[class].commands) :
        toLowerCase(ModuleClasses[class].commands[i].name) = toLowerCase(command)

\* ------------------------------------------------------------ array helpers
\* Array.prototype.findIndex with a predicate given as the set of matching
\* indices; 0 stands for "not found" (-1 in JavaScript, indices are 1-based)
FirstIndex(matching) ==
    IF matching = {} THEN 0 ELSE CHOOSE i \in matching : \A j \in matching : i <= j

\* Array.prototype.splice(index, 1)
SpliceOne(s, index) ==
    [j \in 1..(Len(s) - 1) |-> IF j < index THEN s[j] ELSE s[j + 1]]

\* String.prototype.split(' ')
RECURSIVE Split(_)
Split(path) ==
    LET blanks == {i \in 1..Len(path) : path[i] = " "}
        k == FirstIndex(blanks)
        Word(w) == IF w = <<>> THEN "" ELSE w[1]
    IN  IF k = 0 THEN <<Word(path)>>
        ELSE <<Word(SubSeq(path, 1, k - 1))>> \o Split(SubSeq(path, k + 1, Len(path)))

\* Array.prototype.slice(2).join(' ')
RECURSIVE Join(_)
Join(words) ==
    IF words = <<>> THEN <<>>
    ELSE IF Len(words) = 1 THEN (IF words[1] = "" THEN <<>> ELSE <<words[1]>>)
    ELSE (IF words[1] = "" THEN <<>> ELSE <<words[1]>>) \o <<" ">> \o Join(Tail(words))

SliceFrom(s, n) == IF Len(s) < n THEN <<>> ELSE SubSeq(s, n, Len(s))

\* CoreJS.parseArgsFromString: "--key value" pairs become {key: value}
Flags == [f \in {"--role", "--Role", "--ROLE", "--id"} |->
            CASE f = "--role" -> "role"
              [] f = "--Role" -> "Role"
              [] f = "--ROLE" -> "ROLE"
              [] f = "--id" -> "id"]

RECURSIVE ParseWords(_, _)
ParseWords(words, acc) ==
    IF words = <<>> THEN acc
    ELSE IF words[1] \in DOMAIN Flags /\ Len(words) >= 2 /\ words[2] \notin DOMAIN Flags
         THEN ParseWords(SubSeq(words, 3, Len(words)),
                         [k \in (DOMAIN acc) \cup {Flags[words[1]]} |->
                            IF k = Flags[words[1]] THEN words[2] ELSE acc[k]])
         ELSE ParseWords(Tail(words), acc)

parseArgsFromString(str) ==
    LET words == Split(str)
        kept == SelectSeq(words, LAMBDA w : w # "")
    IN  ParseWords(kept, NoArgs)

\* ------------------------------------------------------------ route compiler
NoError == [message |-> "", subject |-> "", index |-> 0]
ConfigError(m, s, i) == [message |-> m, subject |-> s, index |-> i]

\* AddParameters comparing the names as they are written
RECURSIVE AddParameters_CaseSensitive(_, _)
AddParameters_CaseSensitive(parameters, declared) ==
    IF declared = <<>> THEN parameters
    ELSE LET key == declared[1].name
             known == \E i \in 1..Len(parameters) : parameters[i].name = key
         IN  AddParameters_CaseSensitive(
                 IF known THEN parameters ELSE Append(parameters, declared[1]),
                 Tail(declared))

\* app.ts 155-158: add all command parameters to serialization
RECURSIVE AddParameters(_, _)
AddParameters(parameters, declared) ==
    IF declared = <<>> THEN parameters
    ELSE LET key == declared[1].name
             known == \E i \in 1..Len(parameters) :
                         toLowerCase(parameters[i].name) = toLowerCase(key)
         IN  AddParameters(IF known THEN parameters ELSE Append(parameters, declared[1]),
                           Tail(declared))

\* app.ts 160-162: collect the keys of the static args of a step
RECURSIVE AddRouteArgs(_, _)
AddRouteArgs(routeArgs, keys) ==
    IF keys = {} THEN routeArgs
    ELSE LET key == CHOOSE k \in keys : TRUE
         IN  AddRouteArgs(IF key \in Range(routeArgs) THEN routeArgs
                          ELSE Append(routeArgs, toLowerCase(key)),
                          keys \ {key})

\* RemoveRouteArgs comparing the names as they are written
RECURSIVE RemoveRouteArgs_CaseSensitive(_, _)
RemoveRouteArgs_CaseSensitive(parameters, routeArgs) ==
    IF routeArgs = <<>> THEN parameters
    ELSE LET key == routeArgs[1]
             index == FirstIndex({i \in 1..Len(parameters) : parameters[i].name = key})
         IN  RemoveRouteArgs_CaseSensitive(
                 IF index = 0 THEN parameters ELSE SpliceOne(parameters, index),
                 Tail(routeArgs))

\* app.ts 172-179: remove all route args from serialization
RECURSIVE RemoveRouteArgs(_, _)
RemoveRouteArgs(parameters, routeArgs) ==
    IF routeArgs = <<>> THEN parameters
    ELSE LET key == routeArgs[1]
             index == FirstIndex({i \in 1..Len(parameters) :
                                    toLowerCase(parameters[i].name) = key})
         IN  RemoveRouteArgs(IF index = 0 THEN parameters ELSE SpliceOne(parameters, index),
                             Tail(routeArgs))

\* FindModule that falls back on the first module of the list
FindModule_OrFirst(mods, moduleName) ==
    LET found == {i \in 1..Len(mods) :
                    toLowerCase(ModuleClasses[mods[i].class].name) = moduleName}
    IN  IF found = {} THEN 1 ELSE FirstIndex(found)

\* this._modules.find(module => module.name.toLowerCase() === moduleName):
\* the first module of the list with that name, 0 when there is none.
\* mods is the list of [id, class] of the modules held by the app.
FindModule(mods, moduleName) ==
    FirstIndex({i \in 1..Len(mods) :
                  toLowerCase(ModuleClasses[mods[i].class].name) = moduleName})

FindCommand(class, command) ==
    LET cmds == ModuleClasses[class].commands
    IN  cmds[FirstIndex({i \in 1..Len(cmds) : toLowerCase(cmds[i].name) = command})]

\* moduleData.commands.find(...) finds an entry: commandData is defined
HasCommandData(class, command) ==
    \E i \in 1..Len(ModuleClasses[class].commands) :
        toLowerCase(ModuleClasses[class].commands[i].name) = command

\* app.ts 130-169: one path of a route, given what the earlier paths of the
\* route accumulated (acc: paths, parameters, routeArgs, error)
CompilePath(name, path, pathIndex, mods, acc) ==
    LET split == Split(path)
        moduleName == toLowerCase(split[1])
        m == FindModule(mods, moduleName)
        command == toLowerCase(split[2])
        args == parseArgsFromString(Join(SliceFrom(split, 3)))
        commandData == FindCommand(mods[m].class, command)
        Fail(e) == [acc EXCEPT !.error = e]
    IN  IF split[1] = ""
          THEN Fail(ConfigError("missing module name", name, pathIndex))
        ELSE IF m = 0
          THEN Fail(ConfigError("module does not exist", split[1], 0))
        ELSE IF Len(split) < 2
          THEN Fail(ConfigError("TypeError", "", 0))
        ELSE IF command = ""
          THEN Fail(ConfigError("missing command", name, pathIndex))
        ELSE IF ~ModuleHas(mods[m].class, command)
          THEN Fail(ConfigError("invalid command", command, pathIndex))
        ELSE IF ~HasCommandData(mods[m].class, command)
          THEN Fail(ConfigError("TypeError", "", 0))
        ELSE [paths |-> Append(acc.paths,
                               [module |-> mods[m].id, command |-> command, args |-> args]),
              parameters |-> AddParameters(acc.parameters, commandData.parameters),
              routeArgs |-> AddRouteArgs(acc.routeArgs, DOMAIN args),
              error |-> NoError]

\* data.paths.map(...): stops at the first path that throws
RECURSIVE CompilePaths(_, _, _, _, _)
CompilePaths(name, paths, pathIndex, mods, acc) ==
    IF pathIndex >= Len(paths) THEN acc
    ELSE LET next == CompilePath(name, paths[pathIndex + 1], pathIndex, mods, acc)
         IN  IF next.error # NoError THEN next
             ELSE CompilePaths(name, paths, pathIndex + 1, mods, next)

\* HasPaths that does not look at the length of the list
HasPaths_Defined(data) == "paths" \in DOMAIN data

\* app.ts 122: !data.paths || !data.paths.length
HasPaths(data) == "paths" \in DOMAIN data /\ Len(data.paths) > 0

\* app.ts 115-186: one route of the configuration: its compiled Route, or
\* the error it throws
CompileRoute(name, data, routeIndex, mods) ==
    LET description == IF "description" \in DOMAIN data THEN data.description ELSE ""
        options == IF "options" \in DOMAIN data THEN data.options ELSE NoArgs
        start == [paths |-> <<>>, parameters |-> <<>>, routeArgs |-> <<>>, error |-> NoError]
        done == CompilePaths(name, data.paths, 0, mods, start)
    IN  IF name = ""
          THEN [error |-> ConfigError("invalid name", "", routeIndex)]
        ELSE IF ~HasPaths(data)
          THEN [error |-> ConfigError("no paths", name, 0)]
        ELSE IF done.error # NoError
          THEN [error |-> done.error]
        ELSE [error |-> NoError,
              route |-> [description |-> description,
                         options |-> options,
                         parameters |-> RemoveRouteArgs(done.parameters, done.routeArgs),
                         paths |-> done.paths]]

\* Install that adds the steps to those of the entry the key has already
Install_Merge(table, key, route) ==
    [k \in (DOMAIN table) \cup {key} |->
        IF k # key THEN table[k]
        ELSE IF key \in DOMAIN table
          THEN [route EXCEPT !.paths = table[key].paths \o route.paths]
          ELSE route]

\* Install that leaves the entry a key has already
Install_KeepFirst(table, key, route) ==
    [k \in (DOMAIN table) \cup {key} |-> IF k \in DOMAIN table THEN table[k] ELSE route]

\* this._routes[name.toLowerCase()] = {...}
Install(table, key, route) ==
    [k \in (DOMAIN table) \cup {key} |-> IF k = key THEN route ELSE table[k]]

\* app.ts 114-187: Object.keys(routes).forEach(...) writing into the table
\* this._routes holds; a throw leaves what was written before it.
\* routes is the configured mapping as the sequence of its <<name, data>>.
RECURSIVE CompileRoutes(_, _, _, _)
CompileRoutes(routes, routeIndex, mods, table) ==
    IF routeIndex >= Len(routes) THEN [table |-> table, error |-> NoError]
    ELSE LET name == routes[routeIndex + 1][1]
             r == CompileRoute(name, routes[routeIndex + 1][2], routeIndex, mods)
         IN  IF r.error # NoError THEN [table |-> table, error |-> r.error]
             ELSE CompileRoutes(routes, routeIndex + 1, mods,
                                Install(table, toLowerCase(name), r.route))

NoRoutes == [k \in {} |-> 0]

\* ------------------------------------------------------------ configuration
\* A path string, as its words and blanks
P1(a) == <<a>>
P2(a, b) == <<a, " ", b>>
P4(a, b, c, d) == <<a, " ", b, " ", c, " ", d>>

\* The route mappings a configuration file may hold (AppParameter.Routes),
\* each the sequence of its <<name, RouteData>> entries in key order
RouteConfigs == <<
    \* 1: two routes that compile
    << <<"Read", [description |-> "read one",
                  paths |-> << P2("auth", "check"),
                               P4("Store", "GET", "--ROLE", "guest"),
                               P2("store", "list") >>]>>,
       <<"wipe", [options |-> [broadcast |-> TRUE],
                  paths |-> << P4("store", "del", "--role", "admin"),
                               P4("store", "get", "--role", "guest"),
                               P2("Auth", "Check") >>]>> >>,
    \* 2: the second route names a module that is not loaded
    << <<"list", [options |-> [broadcast |-> FALSE],
                  paths |-> << P2("store", "list"), P2("store", "get") >>]>>,
       <<"bad", [paths |-> << P2("Ghost", "ping") >>]>> >>,
    \* 3: one route that compiles, under a name of its own
    << <<"Stats", [description |-> "count", paths |-> << P2("STORE", "List") >>]>> >>,
    \* 4: two names that differ in letter case only
    << <<"Read", [description |-> "first", paths |-> << P2("auth", "check") >>]>>,
       <<"READ", [description |-> "second", paths |-> << P2("store", "get") >>]>> >>,
    \* 5: a path that is the module name alone
    << <<"list", [paths |-> << P2("store", "list") >>]>>,
       <<"short", [paths |-> << P2("auth", "check"), P1("store") >>]>> >>,
    \* 6: a path that ends after the blank behind the module name
    << <<"blank", [paths |-> << <<"store", " ">> >>]>> >>,
    \* 7: a command the module does not have
    << <<"drop", [paths |-> << P2("store", "list"), P2("Store", "Drop") >>]>> >>,
    \* 8: an empty paths list
    << <<"list", [paths |-> << P2("store", "list") >>]>>,
       <<"empty", [description |-> "nothing", paths |-> << >>]>> >>,
    \* 9: no paths list
    << <<"nopaths", [description |-> "nothing"]>> >>
>>

\* the route mappings of the lifecycle and dispatch behaviours
ConfigIds == {1, 2}

\* every route mapping
AllConfigIds == 1..Len(RouteConfigs)

\* AppParameter.Modules: the module classes the configuration installs
ModuleConfig == <<"Auth", "Store">>

\* ---------------------------------------------------------------- responses
Response(code, from, text) == [code |-> code, from |-> from, text |-> text]

\* CoreJS.RESPONSE_OK, CoreJS.RESPONSE_NO_CONTENT: from 0 marks a response
\* the app made itself, from i > 0 the response of step i of a route
RESPONSE_OK == Response("OK", 0, "")
RESPONSE_NO_CONTENT == Response("NoContent", 0, "")
ErrorResponse(code, message) == Response(code, 0, message)
TextResponse(text) == Response("OK", 0, text)

\* what a module's execute() resolved with when it resolved with nothing
NoResponse == Response("void", 0, "")

CoreError(message) == [class |-> "CoreError", message |-> message]
OtherError(message) == [class |-> "Error", message |-> message]
NoThrow == [class |-> "", message |-> ""]

\* what catch (error) binds when undefined was thrown (Promise.reject())
ThrownUndefined == [class |-> "undefined", message |-> ""]

\* the TypeError of reading a property of undefined
TypeError == [class |-> "TypeError", message |-> "Cannot read properties of undefined"]

\* app.ts 265-269
InvalidRouteResponse(dbg) ==
    IF dbg THEN ErrorResponse("Forbidden", "#_invalid_route") ELSE RESPONSE_NO_CONTENT

\* ------------------------------------------------------------------- state
VARIABLES
    cfg,          \* the route mapping the configuration holds (index of RouteConfigs)
    debug,        \* the debug flag of the configuration
    changes,      \* configuration changes made so far
    initialized,  \* App._initialized
    modules,      \* App._modules: ids of module instances
    routes,       \* App._routes: lowercased name -> Route
    invalidRouteResponse, \* App._invalidRouteResponse
    insts,        \* every module instance loaded so far: class, init and deinit progress
    inits,        \* the App.init() calls made so far
    deinits,      \* the App.deinit() calls made so far
    execs,        \* the App.execute() calls made so far
    srvConfig,    \* the configuration of the server: protocol, origins, headers
    server,       \* Server._stopAction, _allowedOrigins, _allowedRequestHeaders
    listeners,    \* every HTTP server that start() created: "open" or "closed"
    starts,       \* the Server.start() calls made so far
    stops,        \* the Server.stop() calls made so far
    requests      \* the requests that reached Server.onRequest so far

vars == <<cfg, debug, changes, initialized, modules, routes, invalidRouteResponse,
          insts, inits, deinits, execs,
          srvConfig, server, listeners, starts, stops, requests>>

appVars == <<initialized, modules, routes, insts>>
cfgVars == <<cfg, debug, changes, invalidRouteResponse>>
srvVars == <<srvConfig, server, listeners, starts, stops, requests>>

\* part_001 49-56: the defaults the Server constructor gives the configuration
DefaultServerConfig ==
    [protocol |-> "http", files |-> FALSE, allowedOrigins |-> <<>>, requestHeaders |-> <<>>]

\* part_001 34-43: the fields of a Server after construction (0 stands for
\* the null of _stopAction, the empty list for a list not yet assigned)
NewServer == [stopAction |-> 0, allowedOrigins |-> <<>>, allowedRequestHeaders |-> <<>>]

\* part_001 45-57: a constructed server that was never started, on the
\* default configuration
ServerIdle ==
    /\ srvConfig = DefaultServerConfig
    /\ server = NewServer
    /\ listeners = <<>>
    /\ starts = <<>>
    /\ stops = <<>>
    /\ requests = <<>>

\* this._modules as the compiler reads it
ModuleList(ids, all) == [i \in 1..Len(ids) |-> [id |-> ids[i], class |-> all[ids[i]].class]]

\* app.ts 53-78: the app after construction, on a configuration whose debug
\* flag still has its default (app.ts 338: false)
Init ==
    /\ cfg \in ConfigIds
    /\ debug = FALSE
    /\ changes = 0
    /\ initialized = FALSE
    /\ modules = <<>>
    /\ routes = NoRoutes
    /\ invalidRouteResponse = InvalidRouteResponse(debug)
    /\ insts = <<>>
    /\ inits = <<>>
    /\ deinits = <<>>
    /\ execs = <<>>
    /\ ServerIdle

\* ------------------------------------------------------------ configuration
\* the configuration file is reloaded with another route mapping
ChangeRoutes(c) ==
    /\ changes < MaxConfigChanges
    /\ c # cfg
    /\ cfg' = c
    /\ changes' = changes + 1
    /\ UNCHANGED <<debug, invalidRouteResponse, appVars, srvVars, inits, deinits, execs>>

\* app.ts 59, 265-269: the debug flag changes and config.onChange fires
ChangeDebug(b) ==
    /\ changes < MaxConfigChanges
    /\ b # debug
    /\ debug' = b
    /\ changes' = changes + 1
    /\ invalidRouteResponse' = InvalidRouteResponse(debug')
    /\ UNCHANGED <<cfg, appVars, srvVars, inits, deinits, execs>>

\* InitCall that sets the flag once the modules are loaded
InitCall_FlagAfterLoad(loads) ==
    LET first == Len(insts)
        ids == [i \in 1..Len(ModuleConfig) |-> first + i]
        fresh == [i \in 1..Len(ModuleConfig) |->
                    [class |-> ModuleConfig[i], init |-> "pending", deinit |-> "none"]]
    IN  /\ initialized' = IF loads THEN TRUE ELSE initialized
        /\ routes' = NoRoutes
        /\ IF loads
             THEN /\ modules' = ids
                  /\ insts' = insts \o fresh
                  /\ inits' = Append(inits, [pc |-> "await", routes |-> cfg, awaiting |-> ids,
                                             before |-> routes, after |-> NoRoutes,
                                             error |-> NoError])
             ELSE /\ UNCHANGED <<modules, insts>>
                  /\ inits' = Append(inits, [pc |-> "failed", routes |-> cfg, awaiting |-> <<>>,
                                             before |-> routes, after |-> NoRoutes,
                                             error |-> ConfigError("load", "", 0)])
        /\ UNCHANGED <<cfgVars, srvVars, deinits, execs>>

\* InitCall that leaves the table as it is until the routes are compiled
InitCall_KeepTable(loads) ==
    LET first == Len(insts)
        ids == [i \in 1..Len(ModuleConfig) |-> first + i]
        fresh == [i \in 1..Len(ModuleConfig) |->
                    [class |-> ModuleConfig[i], init |-> "pending", deinit |-> "none"]]
    IN  /\ initialized' = TRUE
        /\ UNCHANGED routes
        /\ IF loads
             THEN /\ modules' = ids
                  /\ insts' = insts \o fresh
                  /\ inits' = Append(inits, [pc |-> "await", routes |-> cfg, awaiting |-> ids,
                                             before |-> routes, after |-> NoRoutes,
                                             error |-> NoError])
             ELSE /\ UNCHANGED <<modules, insts>>
                  /\ inits' = Append(inits, [pc |-> "failed", routes |-> cfg, awaiting |-> <<>>,
                                             before |-> routes, after |-> NoRoutes,
                                             error |-> ConfigError("load", "", 0)])
        /\ UNCHANGED <<cfgVars, srvVars, deinits, execs>>

\* ------------------------------------------------------------------ App.init
\* app.ts 89-110: from the call to the await of the modules' init()
InitCall(loads) ==
    LET first == Len(insts)
        ids == [i \in 1..Len(ModuleConfig) |-> first + i]
        fresh == [i \in 1..Len(ModuleConfig) |->
                    [class |-> ModuleConfig[i], init |-> "pending", deinit |-> "none"]]
    IN  /\ initialized' = TRUE
        /\ routes' = NoRoutes
        /\ IF loads
             THEN /\ modules' = ids
                  /\ insts' = insts \o fresh
                  /\ inits' = Append(inits, [pc |-> "await", routes |-> cfg, awaiting |-> ids,
                                             before |-> routes, after |-> NoRoutes,
                                             error |-> NoError])
             ELSE /\ UNCHANGED <<modules, insts>>
                  /\ inits' = Append(inits, [pc |-> "failed", routes |-> cfg, awaiting |-> <<>>,
                                             before |-> routes, after |-> NoRoutes,
                                             error |-> ConfigError("load", "", 0)])
        /\ UNCHANGED <<cfgVars, srvVars, deinits, execs>>

\* a module's init() settles
ModuleInitSettles(id, ok) ==
    /\ id \in 1..Len(insts)
    /\ insts[id].init = "pending"
    /\ insts' = [insts EXCEPT ![id].init = IF ok THEN "done" ELSE "failed"]
    /\ UNCHANGED <<cfgVars, srvVars, initialized, modules, routes, inits, deinits, execs>>

\* app.ts 110-187: Promise.all settled; the routes are compiled into this._routes
InitResume(p) ==
    LET call == inits[p]
        rejected == \E i \in 1..Len(call.awaiting) : insts[call.awaiting[i]].init = "failed"
        settled == \A i \in 1..Len(call.awaiting) : insts[call.awaiting[i]].init = "done"
        built == CompileRoutes(RouteConfigs[call.routes], 0, ModuleList(modules, insts), routes)
    IN  /\ p \in 1..Len(inits)
        /\ call.pc = "await"
        /\ rejected \/ settled
        /\ IF rejected
             THEN /\ inits' = [inits EXCEPT ![p].pc = "failed",
                                            ![p].after = routes,
                                            ![p].error = ConfigError("module init", "", 0)]
                  /\ UNCHANGED routes
             ELSE /\ routes' = built.table
                  /\ inits' = [inits EXCEPT
                                 ![p].pc = IF built.error = NoError THEN "done" ELSE "failed",
                                 ![p].after = built.table,
                                 ![p].error = built.error]
        /\ UNCHANGED <<cfgVars, srvVars, initialized, modules, insts, deinits, execs>>

\* ---------------------------------------------------------------- App.deinit
\* DeinitCall without the test of the flag at its entry
DeinitCall_Unguarded ==
    /\ initialized' = FALSE
    /\ insts' = [id \in 1..Len(insts) |->
                   IF id \in Range(modules)
                     THEN [insts[id] EXCEPT !.deinit = "pending"]
                     ELSE insts[id]]
    /\ deinits' = Append(deinits, [pc |-> "await", awaiting |-> modules,
                                   skipped |-> FALSE, emitted |-> <<"deinit">>])
    /\ UNCHANGED <<cfgVars, srvVars, modules, routes, inits, execs>>

\* app.ts 190-198: from the call to the await of the modules' deinit();
\* emitted is what the call put on onMessage
DeinitCall ==
    /\ IF ~initialized
         THEN /\ deinits' = Append(deinits, [pc |-> "done", awaiting |-> <<>>, skipped |-> TRUE,
                                             emitted |-> <<>>])
              /\ UNCHANGED <<initialized, insts>>
         ELSE /\ initialized' = FALSE
              /\ insts' = [id \in 1..Len(insts) |->
                             IF id \in Range(modules)
                               THEN [insts[id] EXCEPT !.deinit = "pending"]
                               ELSE insts[id]]
              /\ deinits' = Append(deinits, [pc |-> "await", awaiting |-> modules,
                                             skipped |-> FALSE, emitted |-> <<"deinit">>])
    /\ UNCHANGED <<cfgVars, srvVars, modules, routes, inits, execs>>

\* a module's deinit() settles
ModuleDeinitSettles(id, ok) ==
    /\ id \in 1..Len(insts)
    /\ insts[id].deinit = "pending"
    /\ insts' = [insts EXCEPT ![id].deinit = IF ok THEN "done" ELSE "failed"]
    /\ UNCHANGED <<cfgVars, srvVars, initialized, modules, routes, inits, deinits, execs>>

\* app.ts 198-201: Promise.all settled; table and module list are dropped
DeinitResume(d) ==
    LET call == deinits[d]
        rejected == \E i \in 1..Len(call.awaiting) : insts[call.awaiting[i]].deinit = "failed"
        settled == \A i \in 1..Len(call.awaiting) : insts[call.awaiting[i]].deinit = "done"
    IN  /\ d \in 1..Len(deinits)
        /\ call.pc = "await"
        /\ rejected \/ settled
        /\ IF rejected
             THEN /\ deinits' = [deinits EXCEPT ![d].pc = "failed"]
                  /\ UNCHANGED <<routes, modules>>
             ELSE /\ deinits' = [deinits EXCEPT ![d].pc = "done"]
                  /\ routes' = NoRoutes
                  /\ modules' = <<>>
        /\ UNCHANGED <<cfgVars, srvVars, initialized, insts, inits, execs>>

\* --------------------------------------------------------------- App.execute
\* CoreJS.ParameterList.filter(args, {}): the declared parameters the caller
\* gave, nothing else; a declared parameter that is neither given nor
\* optional is a CoreError (missing parameter)
RECURSIVE Filter(_, _, _)
Filter(parameters, raw, acc) ==
    IF parameters = <<>> THEN [error |-> NoThrow, args |-> acc]
    ELSE LET n == parameters[1].name
         IN  IF n \in DOMAIN raw
               THEN Filter(Tail(parameters), raw,
                           [k \in (DOMAIN acc) \cup {n} |-> IF k = n THEN raw[n] ELSE acc[k]])
             ELSE IF parameters[1].optional
               THEN Filter(Tail(parameters), raw, acc)
             ELSE [error |-> CoreError("#_missing_parameter"), args |-> acc]

\* SafeArgs without the filter: the caller's bag is passed on as it came
SafeArgs_Unfiltered(parameters, raw) == [error |-> NoThrow, args |-> raw]

\* SafeArgs that goes on with what the filter collected when it failed
SafeArgs_Lenient(parameters, raw) ==
    [error |-> NoThrow, args |-> Filter(parameters, raw, NoArgs).args]

\* app.ts 216-218: filter args by all route command params
SafeArgs(parameters, raw) == Filter(parameters, raw, NoArgs)

\* Object.assign with the arguments swapped: what is there already wins
ObjectAssign_KeepTarget(target, source) ==
    [k \in (DOMAIN target) \cup (DOMAIN source) |->
        IF k \in DOMAIN target THEN target[k] ELSE source[k]]

\* app.ts 222: Object.assign(args, d.args)
ObjectAssign(target, source) ==
    [k \in (DOMAIN target) \cup (DOMAIN source) |->
        IF k \in DOMAIN source THEN source[k] ELSE target[k]]

\* IsSuccess without the default branch of the switch
IsSuccess_AnyCode(code) == TRUE

\* app.ts 237-245: the codes that do not cancel the execution cycle
IsSuccess(code) == code \in {"OK", "NoContent"}

\* Broadcast with the option ignored, one way and the other
Broadcast_Always(options) == TRUE
Broadcast_Never(options) == FALSE

\* app.ts 249: routeData.options.broadcast
Broadcast(options) == "broadcast" \in DOMAIN options /\ options.broadcast = TRUE

\* NextResult that starts over after a step without a result
NextResult_Reset(result, r) == IF r = NoResponse THEN RESPONSE_OK ELSE r

\* app.ts 229-233: the running result after a step resolved with r
NextResult(result, r) == IF r = NoResponse THEN result ELSE r

\* Exhausted that forgets what the steps produced
Exhausted_ImplicitOk(result) == RESPONSE_OK

\* app.ts 255: the steps are exhausted
Exhausted(result) == result

NoRoute == [description |-> "", options |-> NoArgs, parameters |-> <<>>, paths |-> <<>>]

Return(x, response) == [x EXCEPT !.pc = "done", !.ret = response]

\* Translate with the caught error's own message in the response
Translate_LeakMessage(error) ==
    IF error.class = "CoreError"
      THEN ErrorResponse("Forbidden", error.message)
      ELSE ErrorResponse("InternalServerError", error.message)

\* Translate without the test of the error's class
Translate_AlwaysInternal(error) ==
    ErrorResponse("InternalServerError", "#_something_went_wrong")

\* app.ts 259-261: the response for a caught error
Translate(error) ==
    IF error.class = "CoreError"
      THEN ErrorResponse("Forbidden", error.message)
      ELSE ErrorResponse("InternalServerError", "#_something_went_wrong")

\* Emit that reports nothing
Emit_Silent(emitted, error) == emitted

\* app.ts 257: this.onError.emit(this, error)
Emit(emitted, error) == Append(emitted, error)

\* app.ts 256-262: the catch block; error.constructor throws a TypeError out
\* of execute() when the caught value is undefined
Catch(x, error) ==
    IF error = ThrownUndefined
      THEN [x EXCEPT !.pc = "rejected", !.emitted = Emit(@, error)]
      ELSE [x EXCEPT !.pc = "done", !.emitted = Emit(@, error), !.ret = Translate(error)]

\* the table no longer holds the route object this execution looked up
\* (recorded with each invocation, read by no step of the program)
Swapped(x) ==
    LET key == toLowerCase(x.name)
    IN  ~(key \in DOMAIN routes /\ routes[key] = x.route)

\* app.ts 225: d.module.execute(d.command, args) has been called and has
\* not settled
Call(x, i, d, args, all) ==
    [step |-> i, module |-> d.module, command |-> d.command, args |-> args,
     init |-> all[d.module].init, deinit |-> all[d.module].deinit,
     swapped |-> Swapped(x), out |-> "pending"]

\* Invoke without the await: the next step is called before this one settled
Invoke_Eager(x, i, all) ==
    LET d == x.route.paths[i]
        args == ObjectAssign(x.args, d.args)
        more == IF i + 1 <= Len(x.route.paths)
                  THEN << Call(x, i + 1, x.route.paths[i + 1], args, all) >>
                  ELSE << >>
    IN  [x EXCEPT !.pc = "await", !.i = i, !.args = args,
                  !.calls = (Append(@, Call(x, i, d, args, all))) \o more]

\* Invoke with one argument object for all executions
Invoke_SharedArgs(x, i, all) ==
    LET d == x.route.paths[i]
        args == ObjectAssign(IF execs # << >> THEN execs[1].args ELSE x.args, d.args)
    IN  [x EXCEPT !.pc = "await", !.i = i, !.args = args,
                  !.calls = Append(@, Call(x, i, d, args, all))]

\* Invoke with the route looked up again at each step: an execution whose
\* route left the table ends with the invalid-route response
Invoke_LiveTable(x, i, all) ==
    LET d == x.route.paths[i]
        args == ObjectAssign(x.args, d.args)
    IN  IF Swapped(x) THEN [x EXCEPT !.pc = "done", !.ret = invalidRouteResponse]
        ELSE [x EXCEPT !.pc = "await", !.i = i, !.args = args,
                       !.calls = Append(@, Call(x, i, d, args, all))]

\* Invoke with an argument object of its own for each step: the static args
\* of the step on the filtered arguments of the caller
Invoke_FreshArgs(x, i, all) ==
    LET d == x.route.paths[i]
        args == ObjectAssign(Filter(x.route.parameters, x.raw, NoArgs).args, d.args)
    IN  [x EXCEPT !.pc = "await", !.i = i, !.args = args,
                  !.calls = Append(@, Call(x, i, d, args, all))]

\* app.ts 220-225: step i is entered: the static args are merged and the
\* module's execute() is called; all is the state of the module instances
Invoke(x, i, all) ==
    LET d == x.route.paths[i]
        args == ObjectAssign(x.args, d.args)
    IN  [x EXCEPT !.pc = "await", !.i = i, !.args = args,
                  !.calls = Append(@, Call(x, i, d, args, all))]

\* app.ts 220: ++i, d = routeData.paths[i]; i < routeData.paths.length
Advance(x, all) ==
    IF x.i + 1 > Len(x.route.paths) THEN Return(x, Exhausted(x.result))
    ELSE Invoke(x, x.i + 1, all)

\* app.ts 227-253: step x.i resolved with r
AfterStep(x, r, all) ==
    LET y == [x EXCEPT !.result = NextResult(x.result, r)]
    IN  IF r = NoResponse THEN Advance(y, all)
        ELSE IF ~IsSuccess(y.result.code) THEN Return(y, y.result)
        ELSE IF Broadcast(y.route.options) THEN Advance(y, all)
        ELSE Return(y, y.result)

\* the keys under which this._routes[key] finds a member that the object
\* literal {} inherits from Object.prototype
ObjectPrototype == {"constructor", "__proto__"}

\* app.ts 208-210: this._routes[key] is something truthy
HasRouteData(table, key) == key \in (DOMAIN table) \cup ObjectPrototype

\* RouteKey that takes the name as the caller wrote it
RouteKey_AsWritten(route) == route

\* app.ts 208: route.toLowerCase()
RouteKey(route) == toLowerCase(route)

\* app.ts 204-225: the execution that execute(route, args) has become at
\* its first await or at its return
Executed(route, args) ==
    LET key == RouteKey(route)
        x == [pc |-> "done", name |-> route, raw |-> args, found |-> FALSE, route |-> NoRoute,
              args |-> NoArgs, i |-> 0, result |-> RESPONSE_OK, ret |-> NoResponse,
              calls |-> <<>>, emitted |-> <<>>, filtered |-> FALSE]
        routeData == routes[key]
        safe == SafeArgs(routeData.parameters, args)
        y == [x EXCEPT !.found = TRUE, !.route = routeData, !.filtered = TRUE]
    IN  IF route = "" THEN Return(x, TextResponse("toString"))
        ELSE IF ~HasRouteData(routes, key) THEN Return(x, invalidRouteResponse)
        ELSE IF key \notin DOMAIN routes THEN Catch(x, TypeError)
        ELSE IF safe.error # NoThrow THEN Catch(y, safe.error)
        ELSE Advance([y EXCEPT !.args = safe.args], insts)

\* app.ts 204-225: from the call to the await of the first step
ExecuteCall(route, args) ==
    /\ execs' = Append(execs, Executed(route, args))
    /\ UNCHANGED <<cfgVars, srvVars, appVars, inits, deinits>>

\* what a module's execute() may settle with
Outcomes ==
    {"void", "OK", "NoContent", "BadRequest", "throwCore", "throwOther", "throwUndefined"}

\* app.ts 225-262: the awaited step settles and execute() runs up to its next await
StepSettles(e, outcome) ==
    LET x == [execs[e] EXCEPT !.calls[Len(execs[e].calls)].out = outcome]
    IN  /\ e \in 1..Len(execs)
        /\ execs[e].pc = "await"
        /\ execs' = [execs EXCEPT ![e] =
              CASE outcome = "throwCore" -> Catch(x, CoreError("#_module_error"))
                [] outcome = "throwOther" -> Catch(x, OtherError("secret"))
                [] outcome = "throwUndefined" -> Catch(x, ThrownUndefined)
                [] outcome = "void" -> AfterStep(x, NoResponse, insts)
                [] OTHER -> AfterStep(x, Response(outcome, x.i, ""), insts)]
        /\ UNCHANGED <<cfgVars, srvVars, appVars, inits, deinits>>

\* ------------------------------------------------------------ specifications
RouteNames == {"", "nope", "READ", "read", "wipe", "list", "constructor"}

RawArgs ==
    { NoArgs,
      [Token |-> "t"],
      [Token |-> "t", role |-> "evil", junk |-> "j"] }

\* the inputs of the execute() calls that run next to init() and deinit()
LifeRouteNames == {"READ", "list"}
LifeRawArgs == { [Token |-> "t"] }
LifeOutcomes == {"void", "OK"}

\* The whole life of an app: configuration reloads, init(), deinit() and
\* execute() calls in any interleaving, with modules whose deinit() resolves
Next ==
    \/ \E c \in ConfigIds : ChangeRoutes(c)
    \/ \E loads \in BOOLEAN : Len(inits) < MaxInitCalls /\ InitCall(loads)
    \/ \E id \in 1..Len(insts), ok \in BOOLEAN : ModuleInitSettles(id, ok)
    \/ \E p \in 1..Len(inits) : InitResume(p)
    \/ Len(deinits) < MaxDeinitCalls /\ DeinitCall
    \/ \E id \in 1..Len(insts) : ModuleDeinitSettles(id, TRUE)
    \/ \E d \in 1..Len(deinits) : DeinitResume(d)
    \/ \E n \in LifeRouteNames, a \in LifeRawArgs :
          Len(execs) < MaxExecCalls /\ ExecuteCall(n, a)
    \/ \E e \in 1..Len(execs), o \in LifeOutcomes : StepSettles(e, o)

Spec == Init /\ [][Next]_vars

\* The route compiler alone: init() calls, possibly overlapping, between
\* configuration reloads
NextCompile ==
    \/ \E c \in ConfigIds : ChangeRoutes(c)
    \/ \E loads \in BOOLEAN : Len(inits) < MaxInitCalls /\ InitCall(loads)
    \/ \E id \in 1..Len(insts), ok \in BOOLEAN : ModuleInitSettles(id, ok)
    \/ \E p \in 1..Len(inits) : InitResume(p)

SpecCompile == Init /\ [][NextCompile]_vars

\* The route compiler on every route mapping: init() calls, possibly
\* overlapping, on a configuration that stays as it is
InitConfig ==
    /\ cfg \in AllConfigIds
    /\ debug = FALSE
    /\ changes = 0
    /\ initialized = FALSE
    /\ modules = <<>>
    /\ routes = NoRoutes
    /\ invalidRouteResponse = InvalidRouteResponse(debug)
    /\ insts = <<>>
    /\ inits = <<>>
    /\ deinits = <<>>
    /\ execs = <<>>
    /\ ServerIdle

NextConfig ==
    \/ \E loads \in BOOLEAN : Len(inits) < MaxInitCalls /\ InitCall(loads)
    \/ \E id \in 1..Len(insts), ok \in BOOLEAN : ModuleInitSettles(id, ok)
    \/ \E p \in 1..Len(inits) : InitResume(p)

SpecConfig == InitConfig /\ [][NextConfig]_vars

\* the route mappings that compile without error
GoodConfigIds == {1, 3, 4}

\* Reloads: init() calls, possibly overlapping, between reloads of the
\* configuration with another mapping that compiles
InitReload == InitConfig /\ cfg \in GoodConfigIds

NextReload ==
    \/ \E c \in GoodConfigIds : ChangeRoutes(c)
    \/ \E loads \in BOOLEAN : Len(inits) < MaxInitCalls /\ InitCall(loads)
    \/ \E id \in 1..Len(insts), ok \in BOOLEAN : ModuleInitSettles(id, ok)
    \/ \E p \in 1..Len(inits) : InitResume(p)

SpecReload == InitReload /\ [][NextReload]_vars

\* Restarts: init() and deinit() calls in any interleaving on a
\* configuration that stays as it is, with modules that load and whose
\* init() and deinit() resolve
NextRestart ==
    \/ Len(inits) < MaxInitCalls /\ InitCall(TRUE)
    \/ \E id \in 1..Len(insts) : ModuleInitSettles(id, TRUE)
    \/ \E p \in 1..Len(inits) : InitResume(p)
    \/ Len(deinits) < MaxDeinitCalls /\ DeinitCall
    \/ \E id \in 1..Len(insts) : ModuleDeinitSettles(id, TRUE)
    \/ \E d \in 1..Len(deinits) : DeinitResume(d)

SpecRestart == InitReload /\ [][NextRestart]_vars

\* The route dispatcher alone: execute() calls on an app whose init() ran on
\* the loaded configuration with every module initialised (the table is the
\* one that init() left, complete or not), while the debug flag may change
InitDispatch ==
    /\ cfg \in ConfigIds
    /\ debug \in BOOLEAN
    /\ changes = 0
    /\ initialized = TRUE
    /\ modules = [i \in 1..Len(ModuleConfig) |-> i]
    /\ insts = [i \in 1..Len(ModuleConfig) |->
                  [class |-> ModuleConfig[i], init |-> "done", deinit |-> "none"]]
    /\ routes = CompileRoutes(RouteConfigs[cfg], 0, ModuleList(modules, insts), NoRoutes).table
    /\ invalidRouteResponse = InvalidRouteResponse(debug)
    /\ inits = << [pc |-> IF cfg = 1 THEN "done" ELSE "failed", routes |-> cfg,
                   awaiting |-> modules, before |-> NoRoutes, after |-> routes,
                   error |-> CompileRoutes(RouteConfigs[cfg], 0,
                                           ModuleList(modules, insts), NoRoutes).error] >>
    /\ deinits = <<>>
    /\ execs = <<>>
    /\ ServerIdle

NextDispatch ==
    \/ \E b \in BOOLEAN : ChangeDebug(b)
    \/ \E n \in RouteNames, a \in RawArgs :
          Len(execs) < MaxDispatchCalls /\ ExecuteCall(n, a)
    \/ \E e \in 1..Len(execs), o \in Outcomes : StepSettles(e, o)

SpecDispatch == InitDispatch /\ [][NextDispatch]_vars

\* Executions in flight together: execute() calls on the initialised app of
\* configuration 1 whose steps settle in any order
MaxInterleaved == 2
InterRouteNames == {"READ", "wipe"}
InterRawArgs == { [Token |-> "t"], [Token |-> "u", ID |-> "7", role |-> "evil"] }
InterOutcomes == {"void", "OK"}

InitInterleave == InitDispatch /\ cfg = 1 /\ debug = FALSE

NextInterleave ==
    \/ \E n \in InterRouteNames, a \in InterRawArgs :
          Len(execs) < MaxInterleaved /\ ExecuteCall(n, a)
    \/ \E e \in 1..Len(execs), o \in InterOutcomes : StepSettles(e, o)

SpecInterleave == InitInterleave /\ [][NextInterleave]_vars

\* Table replacement under executions in flight: init(), deinit() and
\* execute() calls on the initialised app of configuration 1, with modules
\* whose init() resolves
MaxSwaps == 1

\* the app after one init() that completed on route mapping 1
AppStarted ==
    /\ cfg = 1
    /\ debug = FALSE
    /\ changes = 0
    /\ initialized = TRUE
    /\ modules = [i \in 1..Len(ModuleConfig) |-> i]
    /\ insts = [i \in 1..Len(ModuleConfig) |->
                  [class |-> ModuleConfig[i], init |-> "done", deinit |-> "none"]]
    /\ routes = CompileRoutes(RouteConfigs[1], 0, ModuleList(modules, insts), NoRoutes).table
    /\ invalidRouteResponse = InvalidRouteResponse(debug)
    /\ inits = << [pc |-> "done", routes |-> 1, awaiting |-> modules, before |-> NoRoutes,
                   after |-> routes, error |-> NoError] >>
    /\ deinits = <<>>
    /\ execs = <<>>

InitSwap == AppStarted /\ ServerIdle

NextSwap ==
    \/ \E loads \in BOOLEAN : Len(inits) + Len(deinits) < 1 + MaxSwaps /\ InitCall(loads)
    \/ \E id \in 1..Len(insts) : ModuleInitSettles(id, TRUE)
    \/ \E p \in 1..Len(inits) : InitResume(p)
    \/ Len(inits) + Len(deinits) < 1 + MaxSwaps /\ DeinitCall
    \/ \E id \in 1..Len(insts), ok \in BOOLEAN : ModuleDeinitSettles(id, ok)
    \/ \E d \in 1..Len(deinits) : DeinitResume(d)
    \/ \E n \in LifeRouteNames, a \in LifeRawArgs :
          Len(execs) < MaxExecCalls /\ ExecuteCall(n, a)
    \/ \E e \in 1..Len(execs), o \in LifeOutcomes : StepSettles(e, o)

SpecSwap == InitSwap /\ [][NextSwap]_vars

\* Shutdowns: init() and deinit() calls in any interleaving on a fresh app,
\* with module loads and deinit() promises that may fail
MaxShutdowns == 3

NextShutdown ==
    \/ \E loads \in BOOLEAN : Len(inits) + Len(deinits) < MaxShutdowns /\ InitCall(loads)
    \/ \E id \in 1..Len(insts) : ModuleInitSettles(id, TRUE)
    \/ \E p \in 1..Len(inits) : InitResume(p)
    \/ Len(inits) + Len(deinits) < MaxShutdowns /\ DeinitCall
    \/ \E id \in 1..Len(insts), ok \in BOOLEAN : ModuleDeinitSettles(id, ok)
    \/ \E d \in 1..Len(deinits) : DeinitResume(d)

SpecShutdown == Init /\ [][NextShutdown]_vars

\* ==================================================================== Server
\* the undefined of JavaScript among the values of the model
Undefined == "undefined"

\* Array.prototype.includes
Includes(list, v) == \E i \in 1..Len(list) : list[i] = v

\* IsRunning that never sees a stop action
IsRunning_Never(s) == FALSE

\* part_001 59: get isRunning, !!this._stopAction
IsRunning(s) == s.stopAction # 0

\* what a start() call came to: it threw, or it returned a promise
StartThrew(message) ==
    [outcome |-> "threw", error |-> message, listener |-> 0, promise |-> "none"]
StartReturned(listener, promise) ==
    [outcome |-> "returned", error |-> "", listener |-> listener, promise |-> promise]

appState == <<cfgVars, appVars, inits, deinits, execs>>

\* part_001 64-131: Server.start(); srvConfig.files says whether the ssl key
\* and certificate are configured and exist
Start ==
    LET id == Len(listeners) + 1
        origins == IF Len(srvConfig.allowedOrigins) = 0 THEN <<"*">>
                   ELSE srvConfig.allowedOrigins
    IN  /\ IF IsRunning(server)
             THEN /\ starts' = Append(starts, StartThrew("server is running already"))
                  /\ UNCHANGED <<server, listeners>>
           ELSE IF srvConfig.protocol \notin {"http", "https"}
             THEN /\ starts' = Append(starts, StartReturned(0, "resolved"))
                  /\ UNCHANGED <<server, listeners>>
           ELSE IF srvConfig.protocol = "https" /\ ~srvConfig.files
             THEN /\ starts' = Append(starts, StartThrew("ssl"))
                  /\ UNCHANGED <<server, listeners>>
           ELSE /\ listeners' = Append(listeners, "open")
                /\ server' = [stopAction |-> id,
                              allowedOrigins |-> origins,
                              allowedRequestHeaders |-> srvConfig.requestHeaders]
                /\ starts' = Append(starts, StartReturned(id, "pending"))
        /\ UNCHANGED <<appState, srvConfig, stops, requests>>

\* part_001 133-138 and the stop action of 125-130: Server.stop()
Stop ==
    /\ IF ~IsRunning(server)
         THEN /\ stops' = Append(stops, [ran |-> FALSE])
              /\ UNCHANGED <<server, listeners, starts>>
         ELSE /\ listeners' = [listeners EXCEPT ![server.stopAction] = "closed"]
              /\ server' = [server EXCEPT !.stopAction = 0]
              /\ starts' = [i \in 1..Len(starts) |->
                              IF starts[i].listener = server.stopAction
                                THEN [starts[i] EXCEPT !.promise = "resolved"]
                                ELSE starts[i]]
              /\ stops' = Append(stops, [ran |-> TRUE])
    /\ UNCHANGED <<appState, srvConfig, requests>>

\* ---------------------------------------------------------- Server.onRequest
\* request.headers[key]
Header(request, key) ==
    IF key \in DOMAIN request.headers THEN request.headers[key] ELSE Undefined

\* OriginAllowed that lets every origin pass
OriginAllowed_Any(origins, origin) == TRUE

\* part_001 215: the origin is listed, or '*' is
OriginAllowed(origins, origin) == Includes(origins, origin) \/ Includes(origins, "*")

\* url.pathname.substring(1), the pathname being "/" and what follows it
Substring1(pathname) == IF Len(pathname) < 2 THEN "" ELSE pathname[2]

\* a value of args while the request is read: a string (one item) or an
\* array of strings
Str(v) == [array |-> FALSE, items |-> <<v>>]

\* the truthiness of such a value
Truthy(a) == a.array \/ a.items[1] \notin {"", Undefined}

ArgOf(args, key) == IF key \in DOMAIN args THEN args[key] ELSE Str(Undefined)

\* part_001 237-242: one key/value pair of url.searchParams
AddQuery(args, key, value) ==
    LET old == ArgOf(args, key)
        new == IF Truthy(old) THEN [array |-> TRUE, items |-> Append(old.items, value)]
               ELSE Str(value)
    IN  [k \in (DOMAIN args) \cup {key} |-> IF k = key THEN new ELSE args[k]]

RECURSIVE ParseQuery(_, _)
ParseQuery(query, args) ==
    IF query = <<>> THEN args
    ELSE ParseQuery(Tail(query), AddQuery(args, query[1][1], query[1][2]))

\* HeaderArgs that takes a header only when the request has it
RECURSIVE HeaderArgs_WhenPresent(_, _, _)
HeaderArgs_WhenPresent(args, keys, request) ==
    IF keys = <<>> THEN args
    ELSE HeaderArgs_WhenPresent(
             IF keys[1] \in DOMAIN request.headers
               THEN [k \in (DOMAIN args) \cup {keys[1]} |->
                       IF k = keys[1] THEN Str(Header(request, keys[1])) ELSE args[k]]
               ELSE args,
             Tail(keys), request)

\* part_001 244-245: parse args by allowed request headers
RECURSIVE HeaderArgs(_, _, _)
HeaderArgs(args, keys, request) ==
    IF keys = <<>> THEN args
    ELSE HeaderArgs([k \in (DOMAIN args) \cup {keys[1]} |->
                        IF k = keys[1] THEN Str(Header(request, keys[1])) ELSE args[k]],
                    Tail(keys), request)

\* the argument object as App.execute receives it
JsArgs(args) ==
    [k \in DOMAIN args |-> IF args[k].array THEN args[k].items ELSE args[k].items[1]]

\* part_001 249-253: the info response of the empty route
InfoResponse(args) ==
    IF Truthy(ArgOf(args, "html")) THEN "html"
    ELSE IF Truthy(ArgOf(args, "text")) THEN "text"
    ELSE "json"

\* part_001 205-248: a request reaches the handler of a listener that
\* start() created; up to the response, or to the await of App.execute
OnRequest(request) ==
    LET origin == Header(request, "origin")
        route == Substring1(request.pathname)
        args == HeaderArgs(ParseQuery(request.query, NoArgs),
                           server.allowedRequestHeaders, request)
        r == [request |-> request, pc |-> "done", status |-> "", body |-> "", exec |-> 0]
    IN  /\ listeners # <<>>
        /\ IF ~OriginAllowed(server.allowedOrigins, origin)
             THEN /\ requests' = Append(requests, [r EXCEPT !.status = "Forbidden"])
                  /\ UNCHANGED execs
           ELSE IF request.method = "OPTIONS"
             THEN /\ requests' = Append(requests, [r EXCEPT !.status = "NoContent"])
                  /\ UNCHANGED execs
           ELSE IF route # ""
             THEN /\ execs' = Append(execs, Executed(route, JsArgs(args)))
                  /\ requests' = Append(requests, [r EXCEPT !.pc = "await",
                                                            !.exec = Len(execs) + 1])
           ELSE /\ requests' = Append(requests, [r EXCEPT !.status = "OK",
                                                          !.body = InfoResponse(args)])
                /\ UNCHANGED execs
        /\ UNCHANGED <<cfgVars, appVars, inits, deinits,
                       srvConfig, server, listeners, starts, stops>>

\* part_001 248-258: App.execute settled; its response is written, or its
\* rejection ends the handler without a response
Respond(r) ==
    /\ r \in 1..Len(requests)
    /\ requests[r].pc = "await"
    /\ execs[requests[r].exec].pc \in {"done", "rejected"}
    /\ requests' = [requests EXCEPT ![r] =
          IF execs[requests[r].exec].pc = "done"
            THEN [@ EXCEPT !.pc = "done", !.status = execs[requests[r].exec].ret.code,
                           !.body = "result"]
            ELSE [@ EXCEPT !.pc = "rejected"]]
    /\ UNCHANGED <<appState, srvConfig, server, listeners, starts, stops>>

\* ------------------------------------------------------ server specifications
ServerConfigs ==
    [protocol : {"http", "https", "ftp"},
     files : BOOLEAN,
     allowedOrigins : {<<>>, <<"a.com">>, <<"a.com", "*">>},
     requestHeaders : {<<>>, <<"token">>}]

MaxStarts == 3
MaxStops == 2

\* Starts and stops: start() and stop() calls in any order on a server of
\* any configuration
InitServer ==
    /\ AppStarted
    /\ srvConfig \in ServerConfigs
    /\ server = NewServer
    /\ listeners = <<>>
    /\ starts = <<>>
    /\ stops = <<>>
    /\ requests = <<>>

NextServer ==
    \/ Len(starts) < MaxStarts /\ Start
    \/ Len(stops) < MaxStops /\ Stop

SpecServer == InitServer /\ [][NextServer]_vars

\* the requests a client may send
Pathnames == { <<"/">>, <<"/", "READ">>, <<"/", "nope">> }

Queries ==
    { <<>>,
      << <<"Token", "t">>, <<"token", "q">> >>,
      << <<"text", "">>, <<"text", "1">>, <<"token", "q">> >>,
      << <<"tag", "a">>, <<"tag", "b">>, <<"tag", "c">>, <<"Token", "t">> >> }

HeaderSets ==
    { NoArgs,
      [origin |-> "a.com"],
      [origin |-> "evil.com", token |-> "h"],
      [origin |-> "a.com", token |-> "h"] }

Requests ==
    [headers : HeaderSets, method : {"GET", "OPTIONS"}, pathname : Pathnames, query : Queries]

RequestOutcomes == {"void", "OK", "throwUndefined"}

MaxRequests == 1

\* Requests: a server that start() left listening on http, in front of the
\* initialised app of route mapping 1
InitRequests ==
    /\ AppStarted
    /\ srvConfig \in {c \in ServerConfigs : c.protocol = "http" /\ ~c.files}
    /\ server = [stopAction |-> 1,
                 allowedOrigins |-> IF Len(srvConfig.allowedOrigins) = 0 THEN <<"*">>
                                    ELSE srvConfig.allowedOrigins,
                 allowedRequestHeaders |-> srvConfig.requestHeaders]
    /\ listeners = <<"open">>
    /\ starts = << StartReturned(1, "pending") >>
    /\ stops = <<>>
    /\ requests = <<>>

NextRequests ==
    \/ \E request \in Requests : Len(requests) < MaxRequests /\ OnRequest(request)
    \/ \E e \in 1..Len(execs), o \in RequestOutcomes : StepSettles(e, o)
    \/ \E r \in 1..Len(requests) : Respond(r)

SpecRequests == InitRequests /\ [][NextRequests]_vars

\* ==================================================================== claims
IsCompileError(e) == e.message \notin {"", "load", "module init"}

Failing(p) == inits'[p].pc = "failed" /\ (p > Len(inits) \/ inits[p].pc # "failed")

\* C1: when init() fails while compiling a route, the table in effect before
\* that init() call is the table in effect afterwards (nothing that the
\* failed call compiled is installed).
C1_CompilationAllOrNothing ==
    [][\A p \in 1..Len(inits') :
          Failing(p) /\ IsCompileError(inits'[p].error) => routes' = inits'[p].before]_vars

\* the table a suspended init() call is about to build, when it is complete
NewTable(p) ==
    LET built == CompileRoutes(RouteConfigs[inits[p].routes], 0,
                               ModuleList(modules, insts), NoRoutes)
    IN  IF built.error = NoError THEN built.table ELSE inits[p].before

\* C2: an execute() call made while an init() call is suspended (every
\* earlier init() completed, the table held routes at the call, no deinit()
\* called) looks its route up in the complete previous table or the complete
\* new one, never in an empty or partly filled one.
C2_ExecuteSeesCompleteTable ==
    [][\A p \in 1..Len(inits) :
          /\ Len(execs') = Len(execs) + 1
          /\ inits[p].pc = "await"
          /\ \A q \in 1..Len(inits) : q # p => inits[q].pc = "done"
          /\ deinits = <<>>
          /\ inits[p].before # NoRoutes
          => routes \in {inits[p].before, NewTable(p)}]_vars

ParameterNames(route) == {route.parameters[i].name : i \in 1..Len(route.parameters)}

StaticKeys(route) == UNION {DOMAIN route.paths[i].args : i \in 1..Len(route.paths)}

\* C3: in every route of the compiled table no parameter name equals,
\* case-insensitively, a key of the static args of a step of the route.
C3_StaticOverrideInvariant ==
    \A r \in DOMAIN routes :
        \A n \in ParameterNames(routes[r]), k \in StaticKeys(routes[r]) :
            toLowerCase(n) # toLowerCase(k)

\* the parameters the command of a step declares
Declared(step) ==
    LET ps == FindCommand(insts[step.module].class, step.command).parameters
    IN  {ps[i].name : i \in 1..Len(ps)}

\* C3 witness: a compiled route one of whose commands declares a parameter
\* that a step fixes under a name written in another case
C3_Witness ==
    \E r \in DOMAIN routes :
        \E i \in 1..Len(routes[r].paths), k \in StaticKeys(routes[r]) :
            \E n \in Declared(routes[r].paths[i]) :
                /\ n # k
                /\ toLowerCase(n) = toLowerCase(k)
                /\ inits[Len(inits)].pc = "done"

\* ------------------------------------------------------- dispatcher claims
SuccessCodes == {"OK", "NoContent"}
Produced(out) == out \notin {"pending", "void", "throwCore", "throwOther", "throwUndefined"}
ErrorOut(out) == Produced(out) /\ out \notin SuccessCodes
RouteBroadcasts(route) == "broadcast" \in DOMAIN route.options /\ route.options.broadcast = TRUE

Max(S) == CHOOSE m \in S : \A n \in S : n <= m

\* the response of the last of the calls that produced one, the implicit OK
\* when none did
LastProduced(calls) ==
    LET js == {j \in 1..Len(calls) : Produced(calls[j].out)}
    IN  IF js = {} THEN RESPONSE_OK
        ELSE Response(calls[Max(js)].out, calls[Max(js)].step, "")

\* the value the static args of steps 1..i of a route give key k
LastStatic(route, i, k) ==
    route.paths[Max({m \in 1..i : k \in DOMAIN route.paths[m].args})].args[k]

\* C4 as stated: a key of the raw argument bag that is not a parameter of the
\* route is absent from the arguments forwarded to every step.
C4_RawKeysNeverForwarded ==
    \A e \in 1..Len(execs) : \A j \in 1..Len(execs[e].calls) :
        \A k \in (DOMAIN execs[e].raw) \ ParameterNames(execs[e].route) :
            k \notin DOMAIN execs[e].calls[j].args

\* C4 amended: such a key is absent from the forwarded arguments unless it is
\* a key of the static args of that step or an earlier one, and then the
\* forwarded value is the static value.
C4_RawValuesNeverForwarded ==
    \A e \in 1..Len(execs) : \A j \in 1..Len(execs[e].calls) :
        LET x == execs[e]
            c == x.calls[j]
        IN  \A k \in (DOMAIN x.raw) \ ParameterNames(x.route) :
                k \in DOMAIN c.args =>
                    /\ \E m \in 1..c.step : k \in DOMAIN x.route.paths[m].args
                    /\ c.args[k] = LastStatic(x.route, c.step, k)

\* C4 witness: a step was called for a caller who sent an undeclared key that
\* was dropped and another that a step fixes to a different value
C4_Witness ==
    \E e \in 1..Len(execs) : \E j \in 1..Len(execs[e].calls) :
        LET x == execs[e]
            c == x.calls[j]
            extra == (DOMAIN x.raw) \ ParameterNames(x.route)
        IN  /\ \E k \in extra : k \notin DOMAIN c.args
            /\ \E k \in extra : k \in DOMAIN c.args /\ c.args[k] # x.raw[k]

\* C5: the arguments forwarded to step i hold step i's static value for every
\* key of step i's static args.
C5_StaticValuesWin ==
    \A e \in 1..Len(execs) : \A j \in 1..Len(execs[e].calls) :
        LET c == execs[e].calls[j]
            d == execs[e].route.paths[c.step]
        IN  \A k \in DOMAIN d.args : k \in DOMAIN c.args /\ c.args[k] = d.args[k]

\* C5 witness: a step was called whose static value differs from the one an
\* earlier step left under the same key and from the one the caller sent
C5_Witness ==
    \E e \in 1..Len(execs) : \E j \in 1..Len(execs[e].calls) :
        LET x == execs[e]
            c == x.calls[j]
            d == x.route.paths[c.step]
        IN  \E k \in DOMAIN d.args :
                /\ \E m \in 1..(c.step - 1) :
                      k \in DOMAIN x.route.paths[m].args /\ x.route.paths[m].args[k] # d.args[k]
                /\ k \in DOMAIN x.raw /\ x.raw[k] # d.args[k]
                /\ c.args[k] = d.args[k]

\* C6: a step that returns a response with another code than OK or NoContent
\* is the last step called, and its response is what execute() returns.
C6_ErrorStopsChain ==
    \A e \in 1..Len(execs) : \A j \in 1..Len(execs[e].calls) :
        LET x == execs[e]
            c == x.calls[j]
        IN  ErrorOut(c.out) =>
                /\ j = Len(x.calls)
                /\ x.pc = "done"
                /\ x.ret = Response(c.out, c.step, "")

\* C6 witness: on a broadcast route the second of three steps returned an
\* error after the first returned OK
C6_Witness ==
    \E e \in 1..Len(execs) :
        LET x == execs[e]
        IN  /\ RouteBroadcasts(x.route)
            /\ Len(x.route.paths) > 2
            /\ Len(x.calls) = 2
            /\ x.calls[1].out = "OK"
            /\ ErrorOut(x.calls[2].out)
            /\ x.pc = "done"

\* C7: without broadcast, the first step that returns OK or NoContent is the
\* last step called and its response is returned; the steps before it
\* returned nothing and were called once each, in order.
C7_NonBroadcastSuccessStops ==
    \A e \in 1..Len(execs) : \A j \in 1..Len(execs[e].calls) :
        LET x == execs[e]
            c == x.calls[j]
        IN  ~RouteBroadcasts(x.route) /\ c.out \in SuccessCodes =>
                /\ j = Len(x.calls)
                /\ x.pc = "done"
                /\ x.ret = Response(c.out, c.step, "")
                /\ \A m \in 1..j : x.calls[m].step = m
                /\ \A m \in 1..(j - 1) : x.calls[m].out = "void"

\* C7 witness: on a route of three steps without the broadcast option the
\* first step returned nothing and the second OK
C7_Witness ==
    \E e \in 1..Len(execs) :
        LET x == execs[e]
        IN  /\ "broadcast" \notin DOMAIN x.route.options
            /\ Len(x.route.paths) > 2
            /\ Len(x.calls) = 2
            /\ x.calls[1].out = "void"
            /\ x.calls[2].out = "OK"
            /\ x.ret = Response("OK", 2, "")

\* C8: with broadcast, while every step so far returned nothing, OK or
\* NoContent and nothing threw, the steps are called once each in declared
\* order, all of them before execute() returns, and it returns the response
\* of the last step that produced one.
C8_BroadcastFanOut ==
    \A e \in 1..Len(execs) :
        LET x == execs[e]
        IN  /\ x.found
            /\ RouteBroadcasts(x.route)
            /\ x.emitted = <<>>
            /\ \A j \in 1..Len(x.calls) : x.calls[j].out \in {"pending", "void"} \cup SuccessCodes
            => /\ \A j \in 1..Len(x.calls) :
                    /\ x.calls[j].step = j
                    /\ x.calls[j].module = x.route.paths[j].module
                    /\ x.calls[j].command = x.route.paths[j].command
               /\ x.pc = "await" => x.calls[Len(x.calls)].out = "pending"
               /\ x.pc = "done" => Len(x.calls) = Len(x.route.paths) /\ x.ret = LastProduced(x.calls)

\* C8 witness: a broadcast route ran its three steps, which returned OK,
\* NoContent and nothing, and execute() returned the second step's response
C8_Witness ==
    \E e \in 1..Len(execs) :
        LET x == execs[e]
        IN  /\ RouteBroadcasts(x.route)
            /\ x.pc = "done"
            /\ Len(x.calls) = 3
            /\ x.calls[1].out = "OK"
            /\ x.calls[2].out = "NoContent"
            /\ x.calls[3].out = "void"
            /\ x.ret = Response("NoContent", 2, "")

\* the calls of an execution that have settled
Settled(x) == IF x.pc = "await" THEN Len(x.calls) - 1 ELSE Len(x.calls)

\* C9: when the step that settled last returned nothing, the running result
\* is the response of the last earlier step that produced one (the initial
\* OK when none did) and the dispatcher went on to the next step, or
\* returned the running result when there is none.
C9_VoidStepKeepsResult ==
    \A e \in 1..Len(execs) :
        LET x == execs[e]
            n == Settled(x)
        IN  n >= 1 /\ x.calls[n].out = "void" =>
                /\ x.result = LastProduced(SubSeq(x.calls, 1, n - 1))
                /\ \/ x.pc = "await" /\ x.calls[n + 1].step = x.calls[n].step + 1
                   \/ /\ x.pc = "done"
                      /\ x.calls[n].step = Len(x.route.paths)
                      /\ x.ret = x.result

\* C9 witness: the second step returned nothing after the first returned OK,
\* the running result is the first step's response and the third step is called
C9_Witness ==
    \E e \in 1..Len(execs) :
        LET x == execs[e]
        IN  /\ Len(x.calls) = 3
            /\ x.calls[1].out = "OK"
            /\ x.calls[2].out = "void"
            /\ x.calls[3].out = "pending"
            /\ x.result = Response("OK", 1, "")

\* every step of the route was called and none made execute() return early
RanOut(x) ==
    /\ x.found
    /\ x.pc = "done"
    /\ x.emitted = <<>>
    /\ Len(x.calls) = Len(x.route.paths)
    /\ \A j \in 1..Len(x.calls) : x.calls[j].out \in {"void"} \cup SuccessCodes
    /\ RouteBroadcasts(x.route) \/ x.calls[Len(x.calls)].out = "void"

\* C10: when the steps are exhausted without an early return, execute()
\* returns the last response a step produced, the implicit OK when none did.
C10_ExhaustedReturnsLastResult ==
    \A e \in 1..Len(execs) :
        RanOut(execs[e]) => execs[e].ret = LastProduced(execs[e].calls)

\* C10 witness: every step of a route of three steps returned nothing and
\* execute() returned the implicit OK
C10_Witness ==
    \E e \in 1..Len(execs) :
        LET x == execs[e]
        IN  /\ RanOut(x)
            /\ Len(x.calls) = 3
            /\ \A j \in 1..3 : x.calls[j].out = "void"
            /\ x.ret = RESPONSE_OK

\* --------------------------------------------------------- error handling
\* the out of the call an execution made last, "none" when it made none
LastOut(x) == IF x.calls = << >> THEN "none" ELSE x.calls[Len(x.calls)].out

\* the filter of the route an execution found rejects its raw arguments
FilterThrew(x) == x.found /\ Filter(x.route.parameters, x.raw, NoArgs).error # NoThrow

\* the name of an execution is not empty and not a route of the table
UnknownRoute(x, table) == x.name # "" /\ toLowerCase(x.name) \notin DOMAIN table

\* the value an execution caught: from the filter, from the step it called
\* last, or from reading a route the table does not hold; NoThrow otherwise
Thrown(x) ==
    CASE FilterThrew(x) -> Filter(x.route.parameters, x.raw, NoArgs).error
      [] LastOut(x) = "throwCore" -> CoreError("#_module_error")
      [] LastOut(x) = "throwOther" -> OtherError("secret")
      [] LastOut(x) = "throwUndefined" -> ThrownUndefined
      [] ~x.found /\ x.pc = "done" /\ x.ret.code = "InternalServerError" -> TypeError
      [] OTHER -> NoThrow

\* C11 as stated: no execute() call rejects; whatever the filter or a step
\* throws, the call resolves with a response.
C11_DispatchErrorsNeverEscape ==
    \A e \in 1..Len(execs) : execs[e].pc # "rejected"

\* C12: when a step throws an Error that is not a CoreError, execute()
\* returns InternalServerError with the fixed text '#_something_went_wrong',
\* never the message of the thrown error.
C12_GenericErrorIsInternal ==
    \A e \in 1..Len(execs) :
        LET x == execs[e]
        IN  LastOut(x) = "throwOther" =>
                /\ x.pc = "done"
                /\ x.ret = ErrorResponse("InternalServerError", "#_something_went_wrong")
                /\ x.ret.text # Thrown(x).message

\* a step of a route threw a plain Error and execute() has returned
C12_Witness ==
    \E e \in 1..Len(execs) :
        /\ LastOut(execs[e]) = "throwOther"
        /\ execs[e].pc = "done"
        /\ execs[e].ret.code = "InternalServerError"

\* C13: when the filter or a step throws a CoreError, execute() returns
\* Forbidden with the message of that error.
C13_CoreErrorIsForbidden ==
    \A e \in 1..Len(execs) :
        LET x == execs[e]
        IN  Thrown(x).class = "CoreError" =>
                /\ x.pc = "done"
                /\ x.ret = ErrorResponse("Forbidden", Thrown(x).message)

\* the second step of a route threw a CoreError and the caller got its message
C13_Witness ==
    \E e \in 1..Len(execs) :
        /\ LastOut(execs[e]) = "throwCore"
        /\ Len(execs[e].calls) = 2
        /\ execs[e].ret = ErrorResponse("Forbidden", "#_module_error")

\* C14: an execution that caught something has emitted exactly that, once,
\* in every state in which it has returned; an execution that caught
\* nothing has emitted nothing.
C14_CaughtIsEmittedOnce ==
    \A e \in 1..Len(execs) :
        LET x == execs[e]
        IN  IF Thrown(x) = NoThrow THEN x.emitted = << >>
            ELSE x.pc # "await" /\ x.emitted = << Thrown(x) >>

\* a step threw, the error went out on onError and the error response is back
C14_Witness ==
    \E e \in 1..Len(execs) :
        /\ LastOut(execs[e]) \in {"throwCore", "throwOther"}
        /\ execs[e].pc = "done"
        /\ execs[e].ret.code \in {"Forbidden", "InternalServerError"}
        /\ Len(execs[e].emitted) = 1

\* C15: when the filter throws, no step of the route is invoked and the
\* caller gets the error response, Forbidden for the missing parameter.
C15_FilterErrorSkipsSteps ==
    \A e \in 1..Len(execs) :
        LET x == execs[e]
        IN  FilterThrew(x) =>
                /\ x.calls = << >>
                /\ x.pc = "done"
                /\ x.ret = ErrorResponse("Forbidden", "#_missing_parameter")

\* a route with steps was called without its required parameter
C15_Witness ==
    \E e \in 1..Len(execs) :
        /\ FilterThrew(execs[e])
        /\ Len(execs[e].route.paths) > 0
        /\ "Token" \notin DOMAIN execs[e].raw
        /\ execs[e].ret.code = "Forbidden"

\* C16 as stated: an execution under a non-empty name that is not in the
\* table returns an invalid-route response, calls no module, filters no
\* arguments and emits nothing on onError.
C16_UnknownRouteIsInvalid ==
    \A e \in 1..Len(execs) :
        LET x == execs[e]
        IN  UnknownRoute(x, routes) =>
                /\ x.ret \in {InvalidRouteResponse(d) : d \in BOOLEAN}
                /\ x.calls = << >>
                /\ ~x.filtered
                /\ x.emitted = << >>

\* C17 as stated: an execute() call under an unknown route returns Forbidden
\* '#_invalid_route' when the debug flag is true at the call and NoContent
\* when it is false.
C17_InvalidRouteFollowsDebug ==
    [][ Len(execs') = Len(execs) + 1 /\ UnknownRoute(execs'[Len(execs')], routes) =>
            execs'[Len(execs')].ret =
                IF debug THEN ErrorResponse("Forbidden", "#_invalid_route")
                         ELSE RESPONSE_NO_CONTENT ]_vars

\* C18: the steps of one execution run one after another: of the calls an
\* execution made only the last can be unsettled, they are the steps of the
\* route in order, and the execution waits exactly while that call is
\* unsettled; it has made no decision to stop or go on in that time.
C18_StepsRunOneByOne ==
    \A e \in 1..Len(execs) :
        LET x == execs[e]
        IN  /\ \A j \in 1..Len(x.calls) :
                  /\ x.calls[j].step = j
                  /\ j < Len(x.calls) => x.calls[j].out # "pending"
            /\ x.pc = "await" <=> LastOut(x) = "pending"
            /\ x.pc = "await" => x.ret = NoResponse /\ x.i = Len(x.calls)

\* the third step of a route is in progress and the two before it settled
C18_Witness ==
    \E e \in 1..Len(execs) :
        /\ Len(execs[e].calls) = 3
        /\ execs[e].calls[3].out = "pending"
        /\ execs[e].calls[1].out # "pending"
        /\ execs[e].calls[2].out # "pending"

\* ------------------------------------------------------------- concurrency
\* the calls an execution made are the steps of the route it looked up
FollowsCaptured(x) ==
    \A j \in 1..Len(x.calls) :
        /\ x.calls[j].step = j
        /\ j <= Len(x.route.paths)
        /\ x.calls[j].module = x.route.paths[j].module
        /\ x.calls[j].command = x.route.paths[j].command

\* an execution that returned without a throw returned the last response of
\* its steps, at the place where its own route and that response end the walk
StoppedByRoute(x) ==
    x.found /\ x.pc = "done" /\ x.emitted = << >> =>
        /\ x.ret = LastProduced(x.calls)
        /\ \/ Len(x.calls) = Len(x.route.paths)
           \/ ErrorOut(LastOut(x))
           \/ LastOut(x) \in SuccessCodes /\ ~RouteBroadcasts(x.route)

C19_State ==
    \A e \in 1..Len(execs) : FollowsCaptured(execs[e]) /\ StoppedByRoute(execs[e])

C19_Step ==
    \A e \in 1..Len(execs) :
        /\ execs'[e].route = execs[e].route
        /\ routes' # routes => execs'[e] = execs[e]

\* C19: an execution that looked up its route keeps that route whatever
\* init() or deinit() do to the table: a step that changes the table changes
\* no execution, every call an execution makes is the next step of the route
\* it captured, and it returns the response its own steps produced at the
\* place where its own route ends the walk.
C19_InFlightKeepsRoute == []C19_State /\ [][C19_Step]_vars

\* an execution made a call after its route had left the table and returned
\* the response of that call
C19_Witness ==
    \E e \in 1..Len(execs) :
        LET x == execs[e]
        IN  /\ x.pc = "done"
            /\ Len(x.calls) >= 2
            /\ ~x.calls[1].swapped
            /\ x.calls[Len(x.calls)].swapped
            /\ x.calls[Len(x.calls)].out = "OK"
            /\ x.ret = Response("OK", Len(x.calls), "")

\* the argument object of an execution when step i has merged its static
\* args, from the execution's own raw arguments and own route alone
OwnArgs(x, i) ==
    LET statics == UNION {DOMAIN x.route.paths[m].args : m \in 1..i}
        declared == {x.route.parameters[p].name : p \in 1..Len(x.route.parameters)}
                        \cap DOMAIN x.raw
    IN  [k \in statics \cup declared |->
            IF k \in statics THEN LastStatic(x.route, i, k) ELSE x.raw[k]]

C20_State ==
    \A e \in 1..Len(execs) :
        LET x == execs[e]
        IN  /\ \A j \in 1..Len(x.calls) : x.calls[j].args = OwnArgs(x, j)
            /\ x.calls # << >> => x.args = OwnArgs(x, Len(x.calls))
            /\ x.result = LastProduced(SubSeq(x.calls, 1, Settled(x)))

C20_Step ==
    \A e \in 1..Len(execs) :
        execs'[e] # execs[e] => \A f \in (1..Len(execs)) \ {e} : execs'[f] = execs[f]

\* C20: the state of an execution is its own: the arguments of each of its
\* calls and its argument object come from its own raw arguments and the
\* static args of its own route, its running result is the last response of
\* its own steps, and a step of one execution changes no other execution.
C20_ExecutionStateIsPrivate == []C20_State /\ [][C20_Step]_vars

\* two executions with different arguments are both in the middle of their
\* routes
C20_Witness ==
    /\ Len(execs) = 2
    /\ execs[1].raw # execs[2].raw
    /\ \A e \in 1..2 :
          /\ execs[e].pc = "await"
          /\ Len(execs[e].calls) >= 2

\* -------------------------------------------------------------- termination
\* DONE: the execution returned a step's response or the implicit OK
Done(x) == x.pc = "done" /\ x.emitted = << >> /\ x.ret # NoResponse

\* ERROR: the execution returned the response translated from what it caught
Error(x) ==
    /\ x.pc = "done"
    /\ Len(x.emitted) = 1
    /\ x.ret.code \in {"Forbidden", "InternalServerError"}

\* C21 as stated: an execution whose calls have all settled is in DONE or in
\* ERROR, and an execution never calls more steps than its route has paths.
C21_ExecutionTerminates ==
    \A e \in 1..Len(execs) :
        LET x == execs[e]
        IN  /\ Len(x.calls) <= Len(x.route.paths)
            /\ (\A j \in 1..Len(x.calls) : x.calls[j].out # "pending") =>
                   Done(x) \/ Error(x)

\* -------------------------------------------------------------- compilation
\* what a route is apart from the module instances it points to: per step
\* the name of the module, the command and the static args
RouteView(r) ==
    [description |-> r.description,
     options |-> r.options,
     parameters |-> [i \in 1..Len(r.parameters) |-> r.parameters[i].name],
     paths |-> [i \in 1..Len(r.paths) |->
                  [module |-> ModuleClasses[insts[r.paths[i].module].class].name,
                   command |-> r.paths[i].command,
                   args |-> r.paths[i].args]]]

TableView(table) == [k \in DOMAIN table |-> RouteView(table[k])]

\* C22: two init() calls that completed on the same route mapping left
\* tables with the same keys and, per key, the same description, options,
\* parameter names and steps.
C22_CompileIdempotent ==
    \A p, q \in 1..Len(inits) :
        /\ inits[p].pc = "done"
        /\ inits[q].pc = "done"
        /\ inits[p].routes = inits[q].routes
        => TableView(inits[p].after) = TableView(inits[q].after)

\* two init() calls completed, the modules of the first have been through a
\* deinit() and those of the second have not
C22_Witness ==
    /\ Len(inits) >= 2
    /\ Len(deinits) >= 1
    /\ inits[1].pc = "done"
    /\ inits[2].pc = "done"
    /\ deinits[1].pc = "done"
    /\ \A i \in 1..Len(inits[1].awaiting) : insts[inits[1].awaiting[i]].deinit = "done"
    /\ \A i \in 1..Len(inits[2].awaiting) : insts[inits[2].awaiting[i]].deinit = "none"
    /\ inits[1].after # NoRoutes
    /\ routes = inits[2].after

\* the lowercased names of the routes of a mapping
ConfiguredKeys(c) == {toLowerCase(RouteConfigs[c][i][1]) : i \in 1..Len(RouteConfigs[c])}

\* C23 as stated: the table an init() call left when it completed has
\* exactly the lowercased names of the mapping that call read as its keys.
C23_TableHasConfiguredKeys ==
    \A p \in 1..Len(inits) :
        inits[p].pc = "done" => DOMAIN inits[p].after = ConfiguredKeys(inits[p].routes)

\* C24: an execute() call under a name that differs at most in letter case
\* from a configured name whose route is in the table dispatches the route
\* the table holds for that name.
C24_LookupIgnoresCase ==
    \A e \in 1..Len(execs) : \A i \in 1..Len(RouteConfigs[cfg]) :
        LET x == execs[e]
            n == RouteConfigs[cfg][i][1]
        IN  toLowerCase(n) \in DOMAIN routes /\ toLowerCase(x.name) = toLowerCase(n) =>
                /\ x.found
                /\ x.route = routes[toLowerCase(n)]
                /\ FilterThrew(x) \/ x.calls # << >>

\* the route configured as "Read" was called as "READ" and its first step ran
C24_Witness ==
    \E e \in 1..Len(execs) : \E i \in 1..Len(RouteConfigs[cfg]) :
        /\ RouteConfigs[cfg][i][1] = "Read"
        /\ execs[e].name = "READ"
        /\ execs[e].found
        /\ execs[e].route = routes["read"]
        /\ Len(execs[e].calls) >= 1

\* the modules of the configuration as the compiler sees them
ConfiguredModules == [i \in 1..Len(ModuleConfig) |-> [id |-> i, class |-> ModuleConfig[i]]]

\* what the paths of route i of mapping c accumulate before the static keys
\* are removed (app.ts 130-169)
Accumulated(c, i) ==
    CompilePaths(RouteConfigs[c][i][1], RouteConfigs[c][i][2].paths, 0, ConfiguredModules,
                 [paths |-> <<>>, parameters |-> <<>>, routeArgs |-> <<>>, error |-> NoError])

\* the parameters the commands of the steps declare, step after step
RECURSIVE DeclaredInOrder(_)
DeclaredInOrder(steps) ==
    IF steps = << >> THEN << >>
    ELSE LET class == ConfiguredModules[steps[1].module].class
             cmds == ModuleClasses[class].commands
             j == CHOOSE j \in 1..Len(cmds) : toLowerCase(cmds[j].name) = steps[1].command
         IN  cmds[j].parameters \o DeclaredInOrder(Tail(steps))

\* where a name is declared first, whatever the case it is written in
FirstDeclared(declared, n) ==
    CHOOSE j \in 1..Len(declared) :
        /\ toLowerCase(declared[j].name) = toLowerCase(n)
        /\ \A k \in 1..(j - 1) : toLowerCase(declared[k].name) # toLowerCase(n)

\* parameters holds one entry per name of declared, the first declared under
\* that name, in the order of the first declarations
Inferred(parameters, declared) ==
    /\ \A a, b \in 1..Len(parameters) :
          a # b => toLowerCase(parameters[a].name) # toLowerCase(parameters[b].name)
    /\ {toLowerCase(parameters[a].name) : a \in 1..Len(parameters)}
          = {toLowerCase(declared[j].name) : j \in 1..Len(declared)}
    /\ \A a \in 1..Len(parameters) :
          parameters[a] = declared[FirstDeclared(declared, parameters[a].name)]
    /\ \A a, b \in 1..Len(parameters) :
          a < b => FirstDeclared(declared, parameters[a].name)
                     < FirstDeclared(declared, parameters[b].name)

\* the last route of mapping c whose name has the key of route i
IsLastOfKey(c, i) ==
    \A k \in (i + 1)..Len(RouteConfigs[c]) :
        toLowerCase(RouteConfigs[c][k][1]) # toLowerCase(RouteConfigs[c][i][1])

\* C25: for every route of a mapping an init() call compiled, the parameter
\* list accumulated over the steps has one entry per parameter name the
\* commands of the steps declare, case ignored, that entry is the one of the
\* first step declaring the name, and the entries stand in first-seen order;
\* the parameters of the stored route are that list less the static keys.
C25_ParameterInference ==
    \A p \in 1..Len(inits) :
        inits[p].pc = "done" =>
            \A i \in 1..Len(RouteConfigs[inits[p].routes]) :
                LET c == inits[p].routes
                    acc == Accumulated(c, i)
                    key == toLowerCase(RouteConfigs[c][i][1])
                IN  /\ Inferred(acc.parameters, DeclaredInOrder(acc.paths))
                    /\ IsLastOfKey(c, i) =>
                          inits[p].after[key].parameters
                              = RemoveRouteArgs(acc.parameters, acc.routeArgs)

\* an init() call compiled a route whose steps declare one name in two
\* spellings and five parameters in all, of which three are kept
C25_Witness ==
    \E p \in 1..Len(inits) : \E i \in 1..Len(RouteConfigs[inits[p].routes]) :
        LET acc == Accumulated(inits[p].routes, i)
        IN  /\ inits[p].pc = "done"
            /\ Len(DeclaredInOrder(acc.paths)) = 5
            /\ [a \in 1..Len(acc.parameters) |-> acc.parameters[a].name]
                  = << "ID", "role", "Token" >>

\* an init() call got as far as compiling, and has finished
Compiled(p) ==
    /\ inits[p].pc \in {"done", "failed"}
    /\ inits[p].error.message \notin {"load", "module init"}

RouteName(c, i) == RouteConfigs[c][i][1]
RouteData(c, i) == RouteConfigs[c][i][2]

\* the compiler gets to route i of mapping c: no route before it throws
ReachesRoute(c, i) ==
    \A k \in 1..(i - 1) :
        CompileRoute(RouteName(c, k), RouteData(c, k), k - 1, ConfiguredModules).error = NoError

\* the compiler gets to path j of route i of mapping c
ReachesPath(c, i, j) ==
    /\ ReachesRoute(c, i)
    /\ RouteName(c, i) # ""
    /\ "paths" \in DOMAIN RouteData(c, i)
    /\ j \in 1..Len(RouteData(c, i).paths)
    /\ CompilePaths(RouteName(c, i), SubSeq(RouteData(c, i).paths, 1, j - 1), 0,
                    ConfiguredModules,
                    [paths |-> <<>>, parameters |-> <<>>, routeArgs |-> <<>>,
                     error |-> NoError]).error = NoError

\* the paths of the routes of a mapping, as <<route, path>> indices
PathsOf(c) ==
    {ij \in (1..Len(RouteConfigs[c])) \X (1..3) :
        /\ "paths" \in DOMAIN RouteData(c, ij[1])
        /\ ij[2] <= Len(RouteData(c, ij[1]).paths)}

Token(c, ij, n) ==
    LET split == Split(RouteData(c, ij[1]).paths[ij[2]])
    IN  IF Len(split) >= n THEN split[n] ELSE "undefined"

\* a module of the configuration has the name, whatever the case
NamesModule(word) ==
    \E m \in 1..Len(ModuleConfig) :
        toLowerCase(ModuleClasses[ModuleConfig[m]].name) = toLowerCase(word)

ModuleNamed(word) ==
    CHOOSE class \in Range(ModuleConfig) :
        toLowerCase(ModuleClasses[class].name) = toLowerCase(word)

\* the command table of a module class has the command, whatever the case
CommandOf(class, word) ==
    \E k \in 1..Len(ModuleClasses[class].commands) :
        toLowerCase(ModuleClasses[class].commands[k].name) = toLowerCase(word)

\* C26: when the compiler gets to a path whose first token is the name of
\* no loaded module, init() fails with "module with name '<token>' does not
\* exist".
C26_UnknownModuleFails ==
    \A p \in 1..Len(inits) : \A ij \in PathsOf(inits[p].routes) :
        LET c == inits[p].routes
        IN  /\ Compiled(p)
            /\ ReachesPath(c, ij[1], ij[2])
            /\ Token(c, ij, 1) # ""
            /\ ~NamesModule(Token(c, ij, 1))
            => /\ inits[p].pc = "failed"
               /\ inits[p].error = ConfigError("module does not exist", Token(c, ij, 1), 0)

\* an init() call failed on the path "Ghost ping"
C26_Witness ==
    \E p \in 1..Len(inits) :
        /\ inits[p].pc = "failed"
        /\ inits[p].routes = 2
        /\ inits[p].error = ConfigError("module does not exist", "Ghost", 0)

\* C27 as stated: when the compiler gets to a path that names a loaded
\* module and has no second token, init() fails with the error that reports
\* a missing command of that route at that path index.
C27_MissingCommandFails ==
    \A p \in 1..Len(inits) : \A ij \in PathsOf(inits[p].routes) :
        LET c == inits[p].routes
        IN  /\ Compiled(p)
            /\ ReachesPath(c, ij[1], ij[2])
            /\ NamesModule(Token(c, ij, 1))
            /\ Len(Split(RouteData(c, ij[1]).paths[ij[2]])) = 1
            => /\ inits[p].pc = "failed"
               /\ inits[p].error
                    = ConfigError("missing command", RouteName(c, ij[1]), ij[2] - 1)

\* the steps a table holds
StepsOf(table) == {<<k, i>> \in (DOMAIN table) \X (1..3) : i <= Len(table[k].paths)}

\* C28: every step of every route in the table, and in the table every
\* init() call left, holds a lowercased command of its module's command
\* table; when the compiler gets to a path whose command the named module
\* does not have, init() fails with the invalid-command error for that path
\* and the route is not stored.
C28_StepsHoldKnownCommands ==
    /\ \A ki \in StepsOf(routes) :
          LET step == routes[ki[1]].paths[ki[2]]
          IN  /\ step.command = toLowerCase(step.command)
              /\ CommandOf(insts[step.module].class, step.command)
    /\ \A p \in 1..Len(inits) :
          /\ \A ki \in StepsOf(inits[p].after) :
                LET step == inits[p].after[ki[1]].paths[ki[2]]
                IN  CommandOf(insts[step.module].class, step.command)
          /\ \A ij \in PathsOf(inits[p].routes) :
                LET c == inits[p].routes
                IN  /\ Compiled(p)
                    /\ ReachesPath(c, ij[1], ij[2])
                    /\ NamesModule(Token(c, ij, 1))
                    /\ Token(c, ij, 2) \notin {"", "undefined"}
                    /\ ~CommandOf(ModuleNamed(Token(c, ij, 1)), Token(c, ij, 2))
                    => /\ inits[p].pc = "failed"
                       /\ inits[p].error = ConfigError("invalid command",
                                                       toLowerCase(Token(c, ij, 2)), ij[2] - 1)
                       /\ toLowerCase(RouteName(c, ij[1])) \notin DOMAIN inits[p].after

\* an init() call failed on the path "Store Drop" behind a path that compiles
C28_Witness ==
    \E p \in 1..Len(inits) :
        /\ inits[p].pc = "failed"
        /\ inits[p].routes = 7
        /\ inits[p].error = ConfigError("invalid command", "drop", 1)
        /\ inits[p].after = NoRoutes

\* C29: every route in the table, and in the table every init() call left,
\* has at least one step; when the compiler gets to a route whose paths are
\* missing or empty, init() fails with the 'needs to have at least one path'
\* error and the route is not stored.
C29_RoutesHaveSteps ==
    /\ \A k \in DOMAIN routes : Len(routes[k].paths) >= 1
    /\ \A p \in 1..Len(inits) :
          /\ \A k \in DOMAIN inits[p].after : Len(inits[p].after[k].paths) >= 1
          /\ \A i \in 1..Len(RouteConfigs[inits[p].routes]) :
                LET c == inits[p].routes
                    data == RouteData(c, i)
                IN  /\ Compiled(p)
                    /\ ReachesRoute(c, i)
                    /\ RouteName(c, i) # ""
                    /\ "paths" \notin DOMAIN data \/ data.paths = << >>
                    => /\ inits[p].pc = "failed"
                       /\ inits[p].error = ConfigError("no paths", RouteName(c, i), 0)
                       /\ toLowerCase(RouteName(c, i)) \notin DOMAIN inits[p].after

\* an init() call failed on a route with an empty paths list behind a route
\* that it stored
C29_Witness ==
    \E p \in 1..Len(inits) :
        /\ inits[p].pc = "failed"
        /\ inits[p].routes = 8
        /\ inits[p].error = ConfigError("no paths", "empty", 0)
        /\ DOMAIN inits[p].after = {"list"}

\* the mapping has two names that differ in letter case only
HasCaseTwins(c) ==
    \E i, k \in 1..Len(RouteConfigs[c]) :
        /\ i # k
        /\ RouteName(c, i) # RouteName(c, k)
        /\ toLowerCase(RouteName(c, i)) = toLowerCase(RouteName(c, k))

\* C30: an init() call on a mapping with two names that differ in case only,
\* and whose routes all compile, completes without error; its table has one
\* entry per lowercased name, compiled from the last route of that name.
C30_CaseTwinsOverwrite ==
    \A p \in 1..Len(inits) :
        LET c == inits[p].routes
        IN  /\ Compiled(p)
            /\ HasCaseTwins(c)
            /\ ReachesRoute(c, Len(RouteConfigs[c]) + 1)
            => /\ inits[p].pc = "done"
               /\ inits[p].error = NoError
               /\ DOMAIN inits[p].after = ConfiguredKeys(c)
               /\ \A i \in 1..Len(RouteConfigs[c]) :
                     IsLastOfKey(c, i) =>
                        LET r == inits[p].after[toLowerCase(RouteName(c, i))]
                            data == RouteData(c, i)
                        IN  /\ r.description = data.description
                            /\ Len(r.paths) = Len(data.paths)
                            /\ \A j \in 1..Len(r.paths) :
                                  r.paths[j].command = toLowerCase(Split(data.paths[j])[2])

\* an init() call on the mapping {Read, READ} left the one entry "read",
\* which is the route configured as READ
C30_Witness ==
    \E p \in 1..Len(inits) :
        /\ inits[p].pc = "done"
        /\ inits[p].routes = 4
        /\ DOMAIN inits[p].after = {"read"}
        /\ inits[p].after["read"].description = "second"
        /\ inits[p].after["read"].paths[1].command = "get"

\* ------------------------------------------------------------- accumulation
\* source laid over target: the keys of both, source's value where it has one
Overlay(target, source) ==
    [k \in (DOMAIN target) \cup (DOMAIN source) |->
        IF k \in DOMAIN source THEN source[k] ELSE target[k]]

\* the sanitised arguments under the static args of steps 1..i, in order
RECURSIVE Accumulate(_, _, _)
Accumulate(sanitised, paths, i) ==
    IF i = 0 THEN sanitised
    ELSE Overlay(Accumulate(sanitised, paths, i - 1), paths[i].args)

\* C31: the arguments forwarded to step i are the sanitised arguments of the
\* caller overlaid with the static args of steps 1..i in declared order, so
\* a static arg of an earlier step reaches every later step that does not
\* override it.
C31_StaticArgsAccumulate ==
    \A e \in 1..Len(execs) : \A j \in 1..Len(execs[e].calls) :
        LET x == execs[e]
            sanitised == Filter(x.route.parameters, x.raw, NoArgs).args
        IN  x.calls[j].args = Accumulate(sanitised, x.route.paths, x.calls[j].step)

\* a step without static args was called with the static arg of the step
\* before it, next to an argument of the caller
C31_Witness ==
    \E e \in 1..Len(execs) : \E j \in 2..Len(execs[e].calls) :
        LET x == execs[e]
        IN  /\ x.route.paths[j].args = NoArgs
            /\ \E k \in DOMAIN x.route.paths[j - 1].args :
                  x.calls[j].args[k] = x.route.paths[j - 1].args[k]
            /\ \E k \in DOMAIN x.raw : k \in DOMAIN x.calls[j].args /\ x.calls[j].args[k] = x.raw[k]

\* ------------------------------------------------- module lifecycle claims
\* C32 as stated: no step of an execution is invoked on a module instance
\* whose init() has not settled.
C32_NoExecuteBeforeInitSettled ==
    \A e \in 1..Len(execs) : \A j \in 1..Len(execs[e].calls) :
        execs[e].calls[j].init # "pending"

\* C33 as stated: no step of an execution is invoked on a module instance
\* on which deinit() has been called.
C33_NoExecuteAfterDeinit ==
    \A e \in 1..Len(execs) : \A j \in 1..Len(execs[e].calls) :
        execs[e].calls[j].deinit = "none"

\* C34 as stated: a module instance whose init() resolved and that is no
\* longer in the module list has had deinit() called on it.
C34_NoModuleDroppedWithoutDeinit ==
    \A id \in 1..Len(insts) :
        insts[id].init = "done" /\ id \notin Range(modules) => insts[id].deinit # "none"

\* C35: every step of every route of the table references a module instance
\* that is a member of the current module list.
C35_StepsReferenceListedModules ==
    \A k \in DOMAIN routes : \A i \in 1..Len(routes[k].paths) :
        routes[k].paths[i].module \in Range(modules)

\* the table holds routes while instances of an earlier init() have left
\* the module list
C35_Witness ==
    /\ routes # NoRoutes
    /\ \E k \in DOMAIN routes : Len(routes[k].paths) > 0
    /\ \E id \in 1..Len(insts) : id \notin Range(modules) /\ insts[id].init = "done"

\* ------------------------------------------------------------ deinit claims
\* the deinit() calls that got past the test of the flag
Effective == {d \in 1..Len(deinits) : ~deinits[d].skipped}

\* the deinit() calls that called deinit() on module instance id
CalledOn(id) == {d \in 1..Len(deinits) : id \in Range(deinits[d].awaiting)}

C36_State ==
    /\ \A d \in 1..Len(deinits) :
          deinits[d].skipped =>
              deinits[d].emitted = << >> /\ deinits[d].awaiting = << >> /\ deinits[d].pc = "done"
    /\ Cardinality(Effective) <= Len(inits)
    /\ Len(inits) <= 1 => \A id \in 1..Len(insts) : Cardinality(CalledOn(id)) <= 1

C36_Step ==
    /\ Len(deinits') = Len(deinits) + 1 =>
          /\ ~initialized'
          /\ ~initialized =>
                /\ deinits'[Len(deinits')].emitted = << >>
                /\ deinits'[Len(deinits')].awaiting = << >>
                /\ insts' = insts
                /\ routes' = routes
                /\ modules' = modules
          /\ initialized =>
                /\ deinits'[Len(deinits')].awaiting = modules
                /\ \A id \in Range(modules) : insts'[id].deinit = "pending"
    /\ initialized' /\ ~initialized => Len(inits') = Len(inits) + 1

\* C36: a deinit() call on an app that is not initialised emits nothing,
\* calls deinit() on no module and leaves table, module list and flag as
\* they are; every deinit() call leaves the app not initialised and only an
\* init() call makes it initialised again, so of two deinit() calls in a row
\* the second does nothing and each module is deinitialised once.
C36_DeinitIdempotent == []C36_State /\ [][C36_Step]_vars

\* deinit() was called twice in a row after the one init(): the first call
\* reached both modules, the second did nothing
C36_Witness ==
    /\ Len(inits) = 1
    /\ Len(deinits) = 2
    /\ Len(deinits[1].awaiting) = Len(ModuleConfig)
    /\ deinits[2].skipped
    /\ \A id \in Range(deinits[1].awaiting) : Cardinality(CalledOn(id)) = 1

\* ------------------------------------------------------------ isInitialized
C37_State == ~initialized => inits = << >> \/ Effective # {}

C37_Step ==
    /\ Len(inits') = Len(inits) + 1 => initialized'
    /\ initialized /\ ~initialized' => Len(deinits') = Len(deinits) + 1
    /\ \A p \in 1..Len(inits) :
          inits[p].pc = "await" /\ inits'[p].pc = "failed" => initialized' = initialized
    /\ Len(deinits') = Len(deinits) + 1 /\ initialized =>
          /\ ~deinits'[Len(deinits')].skipped
          /\ deinits'[Len(deinits')].awaiting = modules
          /\ \A id \in Range(modules) : insts[id].deinit = "none" => insts'[id].deinit = "pending"
    /\ \A d \in 1..Len(deinits) :
          deinits[d].pc = "await" /\ deinits'[d].pc = "done" =>
              routes' = NoRoutes /\ modules' = << >>

\* C37: isInitialized is true from the entry of every init() call, whether
\* or not its module loading or route compilation throws, and only a
\* deinit() call makes it false; the deinit() call that finds it true calls
\* deinit() on every module of the list and, when it completes, has emptied
\* table and module list.
C37_InitializedUntilDeinit == []C37_State /\ [][C37_Step]_vars

\* the second init() threw while loading its modules and the deinit() that
\* followed deinitialised the modules of the first and emptied the table
C37_Witness ==
    /\ Len(inits) = 2
    /\ inits[2].error.message = "load"
    /\ Len(deinits) = 1
    /\ ~initialized
    /\ Len(deinits[1].awaiting) = Len(ModuleConfig)
    /\ deinits[1].pc = "done"
    /\ routes = NoRoutes
    /\ modules = << >>

\* ------------------------------------------------------------ server claims
OpenListeners == {l \in 1..Len(listeners) : listeners[l] = "open"}

\* the start() calls that created a listener
Created == {s \in 1..Len(starts) : starts[s].listener # 0}

Running == server.stopAction # 0

C38_State ==
    /\ Cardinality(OpenListeners) <= 1
    /\ Running <=> OpenListeners # {}
    /\ Running => OpenListeners = {server.stopAction}
    /\ Cardinality(Created) = Len(listeners)
    /\ \A s \in 1..Len(starts) :
          /\ starts[s].promise = "pending" <=>
                starts[s].listener # 0 /\ listeners[starts[s].listener] = "open"
          /\ starts[s].listener # 0 /\ listeners[starts[s].listener] = "closed" =>
                starts[s].promise = "resolved"

C38_Step ==
    /\ Len(starts') = Len(starts) + 1 /\ Running =>
          /\ starts'[Len(starts')] = StartThrew("server is running already")
          /\ listeners' = listeners
          /\ server' = server
    /\ Len(stops') = Len(stops) + 1 /\ ~Running =>
          /\ listeners' = listeners
          /\ server' = server
          /\ starts' = starts
    /\ Len(stops') = Len(stops) + 1 /\ Running =>
          /\ listeners'[server.stopAction] = "closed"
          /\ server'.stopAction = 0
          /\ \A s \in 1..Len(starts) :
                starts[s].listener = server.stopAction => starts'[s].promise = "resolved"
    /\ ~Running /\ server'.stopAction # 0 =>
          /\ Len(starts') = Len(starts) + 1
          /\ Len(listeners') = Len(listeners) + 1
          /\ starts'[Len(starts')].listener = Len(listeners')
    /\ Running /\ server'.stopAction = 0 => Len(stops') = Len(stops) + 1

\* C38: the server is running exactly while the listener of its last
\* successful start() is open: start() on a running server throws and
\* creates nothing, stop() on a stopped server changes nothing, stop() on a
\* running server closes the listener, clears the running state and resolves
\* the promise of the start() that created it, and only start() and stop()
\* change the running state.
C38_RunningFromStartToStop == []C38_State /\ [][C38_Step]_vars

\* stop() on the stopped server, a start(), a start() that threw, a stop()
\* that closed the listener, and the server running again on a second one
C38_Witness ==
    /\ Len(starts) = 3
    /\ Len(stops) = 2
    /\ ~stops[1].ran
    /\ stops[2].ran
    /\ starts[1].promise = "resolved"
    /\ starts[2].outcome = "threw"
    /\ starts[3].promise = "pending"
    /\ listeners = <<"closed", "open">>
    /\ Running

\* the Origin of a request is listed in allowedOrigins, or '*' is listed
Listed(request) ==
    \E i \in 1..Len(server.allowedOrigins) :
        server.allowedOrigins[i] \in {Header(request, "origin"), "*"}

EmptyPath(request) == Len(request.pathname) = 1

\* the requests for which the server called App.execute
Executing == {r \in 1..Len(requests) : requests[r].exec # 0}

\* C39: App.execute is called for a request only when its origin is allowed,
\* its method is not OPTIONS and its path is not empty, and once for such a
\* request; a request of a disallowed origin is answered 403, an OPTIONS
\* request 204 and an empty path with an info response, without a call of
\* App.execute.
C39_ExecuteOnlyForAllowedRequests ==
    /\ \A r \in 1..Len(requests) :
          LET q == requests[r].request
              answered == requests[r].pc = "done" /\ requests[r].exec = 0
          IN  /\ requests[r].exec # 0 <=>
                    Listed(q) /\ q.method # "OPTIONS" /\ ~EmptyPath(q)
              /\ ~Listed(q) => answered /\ requests[r].status = "Forbidden"
              /\ Listed(q) /\ q.method = "OPTIONS" =>
                    answered /\ requests[r].status = "NoContent"
              /\ Listed(q) /\ q.method # "OPTIONS" /\ EmptyPath(q) =>
                    /\ answered
                    /\ requests[r].status = "OK"
                    /\ requests[r].body \in {"html", "text", "json"}
    /\ Len(execs) = Cardinality(Executing)
    /\ \A r \in Executing : requests[r].exec \in 1..Len(execs)

\* a GET request for a route came from an origin that is not allowed: it is
\* answered 403 and nothing was executed
C39_Witness ==
    \E r \in 1..Len(requests) :
        /\ Header(requests[r].request, "origin") = "evil.com"
        /\ ~Listed(requests[r].request)
        /\ requests[r].request.method = "GET"
        /\ ~EmptyPath(requests[r].request)
        /\ requests[r].status = "Forbidden"
        /\ execs = <<>>

\* C40: under every allowed request header name App.execute receives what
\* the request has in that header, undefined when it has none, whatever the
\* query string holds under that name.
C40_HeaderValuesFromHeaders ==
    \A r \in Executing :
        \A i \in 1..Len(server.allowedRequestHeaders) :
            LET k == server.allowedRequestHeaders[i]
                raw == execs[requests[r].exec].raw
            IN  k \in DOMAIN raw /\ raw[k] = Header(requests[r].request, k)

\* the query string of an executed request supplies a value under the name
\* of an allowed header that the request does not have, and App.execute
\* received undefined under that name
C40_Witness ==
    \E r \in Executing :
        LET q == requests[r].request
            raw == execs[requests[r].exec].raw
        IN  /\ Includes(server.allowedRequestHeaders, "token")
            /\ "token" \notin DOMAIN q.headers
            /\ \E j \in 1..Len(q.query) : q.query[j][1] = "token" /\ q.query[j][2] # Undefined
            /\ raw["token"] = Undefined

====
